---- MODULE Spec2Model ----
(***************************************************************************)
(* NSRVM supervisor kernel (src/src/nsrvm.mjs, src/src/nsrvm-service.mjs). *)
(*                                                                         *)
(* One step of the model is one synchronous run of the supervisor between  *)
(* two suspension points (an await on I/O, a timer, a child event).        *)
(* Continuations of promises that are already resolved run in the same     *)
(* step as the code that resolved them (microtasks), as in Node.js.        *)
(* JavaScript objects that are shared by reference (service configs) live  *)
(* in `heap`, handles (NsrvmService instances) in `handles`, forked child  *)
(* processes in `procs`.                                                   *)
(***************************************************************************)
EXTENDS Integers, Sequences, FiniteSets, TLC

(* --------------------------- constants -------------------------------- *)
NSRVM == "nsrvm"
Names == {"p", "q", "c"}
NoName == ""
NoMax == -1                \* 'maxChilds' absent in a config
Null == 0                  \* null process / no object / no key

(* ------------------------- small helpers ------------------------------ *)
Put(f, k, v) == [x \in (DOMAIN f) \cup {k} |-> IF x = k THEN v ELSE f[x]]
Drop(f, k) == [x \in (DOMAIN f) \ {k} |-> f[x]]
Range(f) == {f[x] : x \in DOMAIN f}
Fresh(S) == CHOOSE i \in 1..(Cardinality(S) + 1) :
              i \notin S /\ \A j \in 1..(i - 1) : j \in S
EmptyMap == [x \in {} |-> Null]

\* Array.prototype.includes / findIndex (0 stands for -1) / splice(idx, 1)
includes(arr, x) == \E i \in DOMAIN arr : arr[i] = x
findIndex(arr, x) ==
  IF includes(arr, x)
  THEN CHOOSE i \in DOMAIN arr : arr[i] = x /\ \A j \in 1..(i - 1) : arr[j] # x
  ELSE 0
splice(arr, idx) == SubSeq(arr, 1, idx - 1) \o SubSeq(arr, idx + 1, Len(arr))

(* ---------------------- configuration documents ----------------------- *)
SC(n, port, allowed, mx, pre, post) ==
  [name |-> n, apiPort |-> port, allowedAPI |-> allowed, parent |-> NoName,
   maxChilds |-> mx, runBeforeStart |-> pre, runAfterExit |-> post,
   waitBeforeStart |-> 0, waitAfterExit |-> 0]

\* a config with waitBeforeStart and waitAfterExit
Waits(c, before, after) ==
  [c EXCEPT !.waitBeforeStart = before, !.waitAfterExit = after]

\* a value that is null where a config object is expected (an entry of a
\* received list, a value of the services object of the file)
NotAnObject == SC(NoName, 0, <<>>, NoMax, FALSE, FALSE)

\* the contents the services-config file takes in the model
DocIds == {"bad", "nojson", "jsnull", "nosvc", "svcnull", "nullentry",
           "pq", "pq2", "q", "pqh", "pqc", "pqw"}

\* what readFile and JSON.parse make of the file: the type of the value
\* ("throws": the file cannot be read, or its text is no JSON) and the type
\* of its property 'services'
Value(type, svc) == [type |-> type, services |-> svc]
JSON(d) ==
  CASE d = "bad"     -> Value("throws", "undefined")
    [] d = "nojson"  -> Value("throws", "undefined")
    [] d = "jsnull"  -> Value("null", "undefined")
    [] d = "nosvc"   -> Value("object", "undefined")
    [] d = "svcnull" -> Value("object", "null")
    [] OTHER         -> Value("object", "object")

\* the values of the services object of the file, by name
Doc(d) ==
  CASE d \in {"bad", "nojson", "jsnull", "nosvc", "svcnull"} -> EmptyMap
    [] d = "nullentry" -> [n \in {"q"} |-> NotAnObject]
    [] d = "pq"  -> [n \in {"p", "q"} |->
                       IF n = "p" THEN SC("p", 1, <<NSRVM>>, 1, FALSE, FALSE)
                                  ELSE SC("q", 1, <<>>, 1, FALSE, FALSE)]
    [] d = "pq2" -> [n \in {"p", "q"} |->
                       IF n = "p" THEN SC("p", 2, <<NSRVM>>, 1, FALSE, FALSE)
                                  ELSE SC("q", 1, <<>>, 1, TRUE, FALSE)]
    [] d = "q"   -> [n \in {"q"} |-> SC("q", 1, <<"p">>, NoMax, FALSE, TRUE)]
    [] d = "pqh" -> [n \in {"p", "q"} |->
                       IF n = "p" THEN SC("p", 1, <<NSRVM>>, 1, FALSE, FALSE)
                                  ELSE SC("q", 1, <<>>, 1, TRUE, TRUE)]
    [] d = "pqc" -> [n \in {"p", "q", "c"} |->
                       CASE n = "p" -> SC("p", 1, <<NSRVM>>, 1, FALSE, FALSE)
                         [] n = "q" -> SC("q", 1, <<>>, 1, FALSE, FALSE)
                         [] n = "c" -> SC("c", 2, <<>>, NoMax, FALSE, FALSE)]
    [] d = "pqw" -> [n \in {"p", "q"} |->
                       IF n = "p"
                       THEN Waits(SC("p", 1, <<NSRVM>>, 1, TRUE, TRUE), 1, 1)
                       ELSE Waits(SC("q", 1, <<>>, 1, FALSE, FALSE), 1, 1)]

\* the config lists a child sends with setChildServices
ChildLists ==
  { <<>>,
    << SC("c", 1, <<>>, NoMax, FALSE, FALSE) >>,
    << SC("q", 1, <<>>, NoMax, FALSE, FALSE) >>,
    << SC("c", 1, <<>>, NoMax, FALSE, FALSE), SC("q", 1, <<>>, NoMax, FALSE, FALSE) >> }

(* ----------------------------- state ---------------------------------- *)
VARIABLES
  heap,       \* ServiceConfig objects: object id -> fields
  conf,       \* this.config.services: name -> object id
  confOk,     \* FALSE after restartServer set this.config = {}
  services,   \* this.services: name -> handle id
  childs,     \* this.childs, in key insertion order: <<[parent, configs]>>
  apiKeys,    \* this.apiKeys: name -> token
  nextKey,    \* next fresh random token
  handles,    \* NsrvmService instances: handle id -> fields
  procs,      \* child processes that have not exited: pid -> fields
  nextPid,    \* next process id
  tasks,      \* suspended control operations
  missing,    \* names whose module path does not resolve
  disk,       \* document currently in the services-config file
  used,       \* events consumed so far
  lim,        \* events allowed: the bounds of the specification
  exited,     \* the supervisor called process.exit(0)
  sent,       \* the message the last step sent to a child (NoMsg: none)
  evt,        \* what the last step was
  client,     \* the NSRVMApiClient of one child process
  hook,       \* one call of run(): its arguments, its child and its timer
  lookup      \* one call of resolveModulePath: the directory and the result

vars == <<heap, conf, confOk, services, childs, apiKeys, nextKey, handles,
          procs, nextPid, tasks, missing, disk, used, lim, exited, sent, evt,
          client, hook, lookup>>

\* asker is the process whose request the message answers; services is the
\* list of an answer to getServicesList
NoMsg == [pid |-> Null, hid |-> Null, reqId |-> 0, body |-> "none",
          serviceName |-> NoName, apiKey |-> Null, asker |-> Null,
          services |-> <<>>]

\* the supervisor state as one value, threaded through the code of a step
Kernel ==
  [heap |-> heap, conf |-> conf, confOk |-> confOk, services |-> services,
   childs |-> childs, apiKeys |-> apiKeys, nextKey |-> nextKey,
   handles |-> handles, procs |-> procs, nextPid |-> nextPid,
   exited |-> exited, sent |-> NoMsg, err |-> FALSE, starts |-> {}, wait |-> {}]

cfgOf(K, h) == K.heap[K.handles[h].config]
nameOf(K, h) == cfgOf(K, h).name

(* ------------------- NsrvmService (nsrvm-service.mjs) ------------------ *)
\* constructor
NewService(oid) ==
  [config |-> oid, dead |-> FALSE, process |-> Null,
   restartTimeoutId |-> FALSE, killTimeoutId |-> FALSE,
   starting |-> FALSE, exiting |-> -1, api |-> <<>>, stopCalled |-> FALSE,
   startPause |-> FALSE, exitPause |-> -1]

\* this.process = fork(this.path, options); attach 'exit' and 'message'.
\* Of a process: lst tells whose listeners are attached (the handle's own or
\* those of stop()), sig the last signal sent to it (1 SIGINT, 2 SIGKILL),
\* ints the interrupts sent to it, timers the kill timers armed for it.
fork(K, h) ==
  LET pid == K.nextPid IN
  [K EXCEPT !.handles[h].process = pid,
            !.procs = Put(@, pid, [hid |-> h, name |-> nameOf(K, h),
                                   port |-> cfgOf(K, h).apiPort,
                                   lst |-> "normal", sig |-> 0,
                                   ints |-> 0, timers |-> 0]),
            !.nextPid = pid + 1]

\* a start() that does not reset the dead flag
startKeepsDead(K, h) ==
  IF K.handles[h].process # Null THEN K
  ELSE IF cfgOf(K, h).runBeforeStart
       THEN [K EXCEPT !.handles[h].starting = TRUE]
       ELSE fork(K, h)

\* start() after the runBeforeStart hooks: the pause, or the fork
startAfterHooks(K, h) ==
  IF cfgOf(K, h).waitBeforeStart > 0
  THEN [K EXCEPT !.handles[h].startPause = TRUE]
  ELSE fork(K, h)

\* start(): up to the first await (the runBeforeStart hooks) or to the fork
start(K, h) ==
  IF K.handles[h].process # Null THEN K
  ELSE LET K1 == [K EXCEPT !.handles[h].dead = FALSE] IN
       IF cfgOf(K1, h).runBeforeStart
       THEN [K1 EXCEPT !.handles[h].starting = TRUE]
       ELSE fork(K1, h)

\* the tail of onExit after the runAfterExit hooks
scheduleRestart(K, h, code) ==
  IF code # 0 THEN [K EXCEPT !.handles[h].restartTimeoutId = TRUE] ELSE K

\* onExit after the runAfterExit hooks: the pause, or the tail
onExitAfterHooks(K, h, code) ==
  IF cfgOf(K, h).waitAfterExit > 0
  THEN [K EXCEPT !.handles[h].exitPause = code]
  ELSE scheduleRestart(K, h, code)

\* onExit(code): up to the first await (the runAfterExit hooks) or to the end
onExit(K, h, code) ==
  IF K.handles[h].process = Null
  THEN \* this.process.removeAllListeners() on null: the handler throws
       [K EXCEPT !.handles[h].dead = TRUE]
  ELSE LET K1 == [K EXCEPT !.handles[h].dead = TRUE,
                           !.handles[h].process = Null] IN
       IF cfgOf(K1, h).runAfterExit
       THEN [K1 EXCEPT !.handles[h].exiting = code]
       ELSE scheduleRestart(K1, h, code)

\* a stop() that leaves the restart timer armed
stopKeepsRestart(K, h) ==
  LET hd == K.handles[h] IN
  IF hd.dead \/ hd.process = Null
  THEN [K EXCEPT !.handles[h] =
          [hd EXCEPT !.process = Null, !.dead = TRUE, !.stopCalled = TRUE]]
  ELSE [K EXCEPT !.handles[h] =
          [hd EXCEPT !.killTimeoutId = TRUE, !.stopCalled = TRUE],
                 !.procs[hd.process] = [@ EXCEPT !.lst = "stop", !.sig = 1,
                                                 !.ints = @ + 1, !.timers = @ + 1]]

\* a stop() that arms no kill timer
stopUnarmed(K, h) ==
  LET hd == K.handles[h] IN
  IF hd.dead \/ hd.process = Null
  THEN [K EXCEPT !.handles[h] =
          [hd EXCEPT !.restartTimeoutId = FALSE, !.process = Null,
                     !.dead = TRUE, !.stopCalled = TRUE]]
  ELSE [K EXCEPT !.handles[h] =
          [hd EXCEPT !.restartTimeoutId = FALSE, !.stopCalled = TRUE],
                 !.procs[hd.process] = [@ EXCEPT !.lst = "stop", !.sig = 1,
                                                 !.ints = @ + 1]]

\* stop(): the promise is pending afterwards iff the handle keeps a process
stop(K, h) ==
  LET hd == K.handles[h] IN
  IF hd.dead \/ hd.process = Null
  THEN [K EXCEPT !.handles[h] =
          [hd EXCEPT !.restartTimeoutId = FALSE, !.process = Null,
                     !.dead = TRUE, !.stopCalled = TRUE]]
  ELSE [K EXCEPT !.handles[h] =
          [hd EXCEPT !.restartTimeoutId = FALSE, !.killTimeoutId = TRUE,
                     !.stopCalled = TRUE],
                 !.procs[hd.process] = [@ EXCEPT !.lst = "stop", !.sig = 1,
                                                 !.ints = @ + 1, !.timers = @ + 1]]

stopPending(K, h) == K.handles[h].process # Null

\* reply(res, reqId); res = "none" stands for undefined
reply(K, h, body, reqId, serviceName, apiKey) ==
  IF ~K.handles[h].dead /\ K.handles[h].process # Null /\ body # "none"
  THEN [K EXCEPT !.sent = [pid |-> K.handles[h].process, hid |-> h,
                           reqId |-> reqId, body |-> body,
                           serviceName |-> serviceName, apiKey |-> apiKey,
                           asker |-> K.handles[h].process,
                           services |-> <<>>]]
  ELSE K

(* --------------------------- NSRVM (nsrvm.mjs) ------------------------- *)
\* a permission check that lets every caller through
checkPermissionsOpen(K, h, target) == TRUE

checkPermissions(K, h, target) == includes(cfgOf(K, h).allowedAPI, target)

\* a patchConfig that leaves the config as it is
patchConfigKeeps(c) == c

\* patchConfig
patchConfig(c) == IF c.maxChilds = NoMax THEN [c EXCEPT !.maxChilds = 0] ELSE c

\* this.childs[name], <<>> standing for undefined
childsIdx(K, name) ==
  IF \E i \in DOMAIN K.childs : K.childs[i].parent = name
  THEN CHOOSE i \in DOMAIN K.childs : K.childs[i].parent = name
  ELSE 0
hasChilds(K, name) == childsIdx(K, name) # 0
childsOf(K, name) == K.childs[childsIdx(K, name)].configs

\* assignChilds(service, configs)
RECURSIVE assignChilds(_, _, _)
assignChilds(K, h, configs) ==
  IF configs = <<>> \/ K.err THEN K
  ELSE LET c == Head(configs)
           sc == K.handles[h].config
           K1 == [K EXCEPT !.heap[c].parent = K.heap[sc].name]
       IN IF ~K1.confOk THEN [K1 EXCEPT !.err = TRUE]
          ELSE LET cn == K1.heap[c].name
                   K2 == [K1 EXCEPT !.conf = Put(@, cn, c)]
                   K3 == IF includes(K2.heap[sc].allowedAPI, cn) THEN K2
                         ELSE [K2 EXCEPT !.heap[sc].allowedAPI = Append(@, cn)]
               IN assignChilds(K3, h, Tail(configs))

\* stopService(serviceName): up to the await of service.stop()
stopService(K, serviceName) ==
  IF serviceName \in DOMAIN K.services
  THEN stop([K EXCEPT !.services = Drop(@, serviceName)], K.services[serviceName])
  ELSE K

\* startService(serviceConfig): up to its first await on I/O; leaves in
\* K.starts where the call is suspended
startService(K, oid) ==
  LET name == K.heap[oid].name IN
  IF name \in DOMAIN K.services
  THEN LET prev == K.services[name]
           K1 == stop([K EXCEPT !.services = Drop(@, name)], prev)
       IN IF stopPending(K1, prev)
          THEN [K1 EXCEPT !.starts = @ \cup {[config |-> oid, st |-> "stop", prev |-> prev]}]
          ELSE [K1 EXCEPT !.starts = @ \cup {[config |-> oid, st |-> "resolve", prev |-> Null]}]
  ELSE [K EXCEPT !.starts = @ \cup {[config |-> oid, st |-> "resolve", prev |-> Null]}]

\* a startService that goes on when no module path was found
startServiceResumeUnchecked(K, oid, found) ==
  LET name == K.heap[oid].name
      h == Fresh(DOMAIN K.handles)
      K1 == [K EXCEPT !.handles = Put(@, h, NewService(oid)),
                      !.services = Put(@, name, h)]
      K2 == IF hasChilds(K1, name)
            THEN assignChilds(K1, h, childsOf(K1, name)) ELSE K1
  IN IF K2.err THEN K2 ELSE start(K2, h)

\* startService after resolveModulePath returned
startServiceResume(K, oid, found) ==
  IF ~found THEN K
  ELSE LET name == K.heap[oid].name
           h == Fresh(DOMAIN K.handles)
           K1 == [K EXCEPT !.handles = Put(@, h, NewService(oid)),
                           !.services = Put(@, name, h)]
           K2 == IF hasChilds(K1, name)
                 THEN assignChilds(K1, h, childsOf(K1, name)) ELSE K1
       IN IF K2.err THEN K2 ELSE start(K2, h)

\* a stop phase that stops every running service
toStopAll(K) == DOMAIN K.services

\* runServices, stop phase: the handles that have to go
toStop(K) ==
  {n \in DOMAIN K.services :
     LET c == cfgOf(K, K.services[n]) IN
       \/ c.name \notin DOMAIN K.conf
       \/ c.apiPort # K.heap[K.conf[c.name]].apiPort}

RECURSIVE stopAll(_, _)
stopAll(K, S) ==
  IF S = {} THEN K
  ELSE LET n == CHOOSE x \in S : TRUE IN stopAll(stopService(K, n), S \ {n})

\* runServices, config-refresh phase for one desired config
refresh(K, n) ==
  LET oid == K.conf[n]
      K1 == IF n \in DOMAIN K.apiKeys THEN K
            ELSE [K EXCEPT !.apiKeys = Put(@, n, K.nextKey), !.nextKey = @ + 1]
  IN IF n \in DOMAIN K1.services
     THEN [K1 EXCEPT !.handles[K1.services[n]].config = oid]
     ELSE K1

RECURSIVE refreshAll(_, _)
refreshAll(K, S) ==
  IF S = {} THEN K
  ELSE LET n == CHOOSE x \in S : TRUE IN refreshAll(refresh(K, n), S \ {n})

RECURSIVE startAll(_, _)
startAll(K, S) ==
  IF S = {} THEN K
  ELSE LET n == CHOOSE x \in S : TRUE
       IN startAll(startService(K, K.conf[n]), S \ {n})

\* runServices from "Update configs" on, up to the await of the starts
runServicesTail(K) ==
  IF ~K.confOk THEN [K EXCEPT !.err = TRUE]
  ELSE LET K1 == refreshAll(K, DOMAIN K.conf)
           toStart == {n \in DOMAIN K1.conf :
                         n \notin DOMAIN K1.services \/ K1.handles[K1.services[n]].dead}
       IN startAll(K1, toStart)

\* runServices: the stop phase, and the rest when no stop has to be awaited.
\* Leaves in K.wait the handles whose stop is awaited, in K.starts the
\* suspended startService calls.
runServices(K0) ==
  LET K == [K0 EXCEPT !.starts = {}, !.wait = {}] IN
  IF ~K.confOk THEN [K EXCEPT !.err = TRUE]
  ELSE LET S == toStop(K)
           hs == {K.services[n] : n \in S}
           K1 == stopAll(K, S)
           w == {h \in hs : stopPending(K1, h)}
       IN IF w # {} THEN [K1 EXCEPT !.wait = w] ELSE runServicesTail(K1)

\* generateAPIKeys: a new token for every name of the loaded config
RECURSIVE mintAll(_, _)
mintAll(K, S) ==
  IF S = {} THEN K
  ELSE LET n == CHOOSE x \in S : TRUE
       IN mintAll([K EXCEPT !.apiKeys = Put(@, n, K.nextKey), !.nextKey = @ + 1], S \ {n})
generateAPIKeys(K) == mintAll([K EXCEPT !.apiKeys = EmptyMap], DOMAIN K.conf)

\* validateConfig; typeof null is 'object'
validateConfig(v) == v.type = "object" /\ v.services \in {"object", "null"}

\* loadConfig: the parsed document as new objects, patched, or the empty
\* snapshot when the try block throws or the document is not valid
RECURSIVE loadInto(_, _, _)
loadInto(K, doc, S) ==
  IF S = {} THEN K
  ELSE LET n == CHOOSE x \in S : TRUE
           oid == Fresh(DOMAIN K.heap)
       IN loadInto([K EXCEPT !.heap = Put(@, oid, patchConfig(doc[n])),
                             !.conf = Put(@, n, oid)], doc, S \ {n})
loadConfig(K, d) ==
  LET v == JSON(d)
      empty == [K EXCEPT !.conf = EmptyMap, !.confOk = TRUE]
  IN IF v.type = "throws" \/ ~validateConfig(v) THEN empty
     ELSE IF v.services = "null"              \* Object.values(null) throws
             \/ \E n \in DOMAIN Doc(d) : Doc(d)[n] = NotAnObject
                                              \* patchConfig(null) throws
          THEN empty
          ELSE loadInto(empty, Doc(d), DOMAIN Doc(d))

\* the body of the watchFile callback between loadConfig and runServices
RECURSIVE reassignChilds(_, _)
reassignChilds(K, parents) ==
  IF parents = <<>> THEN K
  ELSE LET pn == Head(parents) IN
       IF ~hasChilds(K, pn) THEN reassignChilds(K, Tail(parents))
       ELSE IF pn \in DOMAIN K.services
            THEN reassignChilds(assignChilds(K, K.services[pn], childsOf(K, pn)), Tail(parents))
            ELSE IF pn \notin DOMAIN K.conf
                 THEN reassignChilds(
                        [K EXCEPT !.childs = SelectSeq(@, LAMBDA e : e.parent # pn)],
                        Tail(parents))
                 ELSE reassignChilds(K, Tail(parents))

watchConfig(K, d) ==
  LET K1 == loadConfig(K, d)
      K2 == reassignChilds(K1, [i \in DOMAIN K1.childs |-> K1.childs[i].parent])
  IN runServices(K2)

\* init after loadConfig
init(K, d) == runServices(generateAPIKeys(loadConfig(K, d)))

\* configs.some(newConfig => newConfig.name === name) reads .name of null:
\* a null entry before the first entry of that name makes it throw
someThrows(news, name) ==
  \E i \in DOMAIN news :
    news[i] = NotAnObject /\ \A j \in 1..(i - 1) : news[j].name # name

\* setChildServices, "Remove deleted configs"
RECURSIVE removeDeleted(_, _, _, _)
removeDeleted(K, h, olds, news) ==
  IF olds = <<>> \/ K.err THEN K
  ELSE LET on == K.heap[Head(olds)].name IN
       IF someThrows(news, on) THEN [K EXCEPT !.err = TRUE]
       ELSE IF \E i \in DOMAIN news : news[i].name = on
       THEN removeDeleted(K, h, Tail(olds), news)
       ELSE IF ~K.confOk THEN [K EXCEPT !.err = TRUE]
            ELSE LET sc == K.handles[h].config
                     idx == findIndex(K.heap[sc].allowedAPI, on)
                     K1 == [K EXCEPT !.conf = Drop(@, on)]
                     K2 == IF idx # 0
                           THEN [K1 EXCEPT !.heap[sc].allowedAPI = splice(@, idx)]
                           ELSE K1
                 IN removeDeleted(K2, h, Tail(olds), news)

\* setChildServices, the loop over the received configs
RECURSIVE addConfigs(_, _, _)
addConfigs(K, h, news) ==
  IF news = <<>> \/ K.err THEN K
  ELSE IF Head(news) = NotAnObject    \* patchConfig: 'maxChilds' in null
       \/ ~K.confOk THEN [K EXCEPT !.err = TRUE]
  ELSE LET c == patchConfig(Head(news))
           pn == nameOf(K, h)
           i == childsIdx(K, pn)
       IN IF c.name \in DOMAIN K.conf /\ K.heap[K.conf[c.name]].parent # pn
          THEN addConfigs(K, h, Tail(news))
          ELSE LET oid == Fresh(DOMAIN K.heap)
                   K1 == [K EXCEPT !.heap = Put(@, oid, c),
                                   !.childs[i].configs = Append(@, oid)]
               IN addConfigs(K1, h, Tail(news))

\* NSRVM.setChildServices(parent, configs)
setChildServices(K, h, configs) ==
  LET pn == nameOf(K, h)
      K0 == IF hasChilds(K, pn) THEN K
            ELSE [K EXCEPT !.childs = Append(@, [parent |-> pn, configs |-> <<>>])]
      K1 == removeDeleted(K0, h, childsOf(K0, pn), configs)
      K2 == addConfigs(K1, h, configs)
      K3 == assignChilds(K2, h, childsOf(K2, pn))
  IN IF K3.err THEN K3 ELSE runServices(K3)

\* restartServer: up to the await of the stops
RECURSIVE stopHandles(_, _)
stopHandles(K, S) ==
  IF S = {} THEN K
  ELSE LET h == CHOOSE x \in S : TRUE IN stopHandles(stop(K, h), S \ {h})
restartServer(K) ==
  LET hs == Range(K.services)
      K1 == stopHandles([K EXCEPT !.services = EmptyMap, !.conf = EmptyMap,
                                  !.confOk = FALSE], hs)
  IN [K1 EXCEPT !.wait = {h \in hs : stopPending(K1, h)}, !.starts = {}]

\* getApiKeyQuery: the apiKey of the answer (Null stands for '')
getApiKeyQuery(K, serviceName) ==
  IF serviceName \notin DOMAIN K.apiKeys \/ serviceName \notin DOMAIN K.conf
  THEN Null ELSE K.apiKeys[serviceName]

(* ----------------------- public API descriptors ----------------------- *)
MaxApiMethods == 16
MaxApiNameLen == 32
MaxApiDescriptionLen == 128

\* a method descriptor by what validateAPI looks at: is it an object, how
\* many keys, the length of name and of description (-1: not a string)
Method(obj, keys, nameLen, descLen) ==
  [isObject |-> obj, keys |-> keys, name |-> nameLen, description |-> descLen]
ApiValues ==
  { [isArray |-> FALSE, items |-> <<>>],
    [isArray |-> TRUE, items |-> << Method(TRUE, 2, 3, 10) >>],
    [isArray |-> TRUE, items |-> << Method(TRUE, 2, 0, 10) >>] }

\* a validateAPI that refuses a list of MaxApiMethods entries
validateAPIShort(api) ==
  /\ api.isArray
  /\ Len(api.items) < MaxApiMethods
  /\ \A i \in DOMAIN api.items :
       LET method == api.items[i] IN
         /\ method.isObject
         /\ method.keys = 2
         /\ method.name > 0 /\ method.name <= MaxApiNameLen
         /\ method.description >= 0 /\ method.description <= MaxApiDescriptionLen

validateAPI(api) ==
  /\ api.isArray
  /\ Len(api.items) <= MaxApiMethods
  /\ \A i \in DOMAIN api.items :
       LET method == api.items[i] IN
         /\ method.isObject
         /\ method.keys = 2
         /\ method.name > 0 /\ method.name <= MaxApiNameLen
         /\ method.description >= 0 /\ method.description <= MaxApiDescriptionLen

setPublicApi(K, h, api) ==
  IF validateAPI(api) THEN [K EXCEPT !.handles[h].api = api.items] ELSE K

(* ------------------------ suspended operations ------------------------ *)
\* A task is a control operation suspended at an await:
\*   phase "load"      loadConfig is reading the file (init, watch callback)
\*   phase "stopping"  runServices awaits Promise.all(stopping)
\*   phase "waiting"   awaits stops (wait) and startService calls (starts),
\*                     then returns to its caller (and replies, for a message)
\*   phase "shutdown"  restartServer awaits the stops, then process.exit(0)
\* For the handler of a message, h is the handle, pid the process that sent
\* it, reqId its _reqId, body the reply to send, and removed the names a
\* setChildServices has to remove.
Task(id, kind, phase) ==
  [id |-> id, kind |-> kind, phase |-> phase, doc |-> "bad", wait |-> {},
   starts |-> {}, h |-> Null, pid |-> Null, reqId |-> 0, body |-> "none",
   removed |-> {}]

clean(K) == [K EXCEPT !.err = FALSE, !.starts = {}, !.wait = {}]

\* run a task as far as it goes without waiting
RECURSIVE Settle(_, _)
Settle(K, t) ==
  IF t.phase = "stopping" /\ t.wait = {}
  THEN LET K1 == runServicesTail(clean(K)) IN
       IF K1.err THEN [K |-> clean(K1), T |-> {}]
       ELSE Settle(clean(K1), [t EXCEPT !.phase = "waiting", !.starts = K1.starts])
  ELSE IF t.phase = "waiting" /\ t.wait = {} /\ t.starts = {}
  THEN [K |-> IF t.kind = "msg"
              THEN LET R == reply(K, t.h, t.body, t.reqId, NoName, Null) IN
                   IF R.sent = NoMsg THEN R ELSE [R EXCEPT !.sent.asker = t.pid]
              ELSE K,
        T |-> {}]
  ELSE IF t.phase = "shutdown" /\ t.wait = {}
  THEN [K |-> [K EXCEPT !.exited = TRUE], T |-> {}]
  ELSE [K |-> K, T |-> {t}]

\* the state of the caller t after a call of runServices, a stopService or a
\* startService returned K (K.err: it threw)
Suspend(K, t, phase) ==
  IF K.err THEN [K |-> clean(K), T |-> {}]
  ELSE IF phase = "run" /\ K.wait # {}
  THEN [K |-> clean(K), T |-> {[t EXCEPT !.phase = "stopping", !.wait = K.wait]}]
  ELSE Settle(clean(K), [t EXCEPT !.phase = IF phase = "run" THEN "waiting" ELSE phase,
                                  !.wait = K.wait, !.starts = K.starts])

RECURSIVE SettleAll(_, _, _)
SettleAll(K, todo, done) ==
  IF todo = {} THEN [K |-> K, T |-> done]
  ELSE LET t == CHOOSE x \in todo : TRUE
           r == Settle(K, t)
       IN SettleAll(r.K, todo \ {t}, done \cup r.T)

\* the stop promise of handle h was resolved
resolved(t, h) ==
  [t EXCEPT !.wait = @ \ {h},
            !.starts = {IF s.st = "stop" /\ s.prev = h
                        THEN [s EXCEPT !.st = "resolve", !.prev = Null] ELSE s : s \in @}]

(* --------------------------- garbage ----------------------------------- *)
liveHandles(K, T) ==
  Range(K.services) \cup {K.procs[x].hid : x \in DOMAIN K.procs}
  \cup {h \in DOMAIN K.handles :
          \/ K.handles[h].process # Null \/ K.handles[h].restartTimeoutId
          \/ K.handles[h].killTimeoutId \/ K.handles[h].starting
          \/ K.handles[h].exiting >= 0
          \/ K.handles[h].startPause \/ K.handles[h].exitPause >= 0}
  \cup {t.h : t \in T} \cup UNION {t.wait : t \in T}
  \cup UNION {{s.prev : s \in t.starts} : t \in T}

liveObjects(K, T, H) ==
  Range(K.conf) \cup {K.handles[h].config : h \in H}
  \cup UNION {Range(K.childs[i].configs) : i \in DOMAIN K.childs}
  \cup UNION {{s.config : s \in t.starts} : t \in T}

Commit(K, T, u, e) ==
  LET H == liveHandles(K, T) \cap DOMAIN K.handles
      O == liveObjects(K, T, H) \cap DOMAIN K.heap
  IN /\ heap' = [o \in O |-> K.heap[o]]
     /\ handles' = [h \in H |-> K.handles[h]]
     /\ conf' = K.conf /\ confOk' = K.confOk /\ services' = K.services
     /\ childs' = K.childs /\ apiKeys' = K.apiKeys /\ nextKey' = K.nextKey
     /\ procs' = K.procs /\ nextPid' = K.nextPid /\ exited' = K.exited
     /\ sent' = K.sent /\ tasks' = T /\ used' = u /\ evt' = e
     /\ lim' = lim /\ client' = client /\ hook' = hook /\ lookup' = lookup

Ev(op, h, method, serviceName) ==
  [op |-> op, h |-> h, method |-> method, serviceName |-> serviceName,
   arg |-> Null,
   reqId |-> IF op \in {"getConfig", "api", "setPublicApi", "exit-cmd",
                        "setChildServices", "unknown"}
             THEN used.msgs + used.probes + 2 ELSE 0]

nextId == used.loads + used.msgs + used.sigs + 1

\* the _reqId of the next message of a child
ReqId == used.msgs + used.probes + 2

(* ---------------- NSRVMApiClient (nsrvm-api-client.js) ----------------- *)
\* A request id is a 32-bit value, kept as its two 16-bit halves <<high, low>>.
MaxReqId == <<65535, 65535>>                  \* 0xffffffff
incr(id) == IF id[2] = 65535 THEN <<id[1] + 1, 0>> ELSE <<id[1], id[2] + 1>>
greater(a, b) == a[1] > b[1] \/ (a[1] = b[1] /\ a[2] > b[2])

\* a getReqId that wraps to 0
getReqIdFromZero(lastReqId) ==
  IF greater(incr(lastReqId), MaxReqId) THEN <<0, 0>> ELSE incr(lastReqId)

\* getReqId: the new value of this.lastReqId, which is the id returned
getReqId(lastReqId) ==
  IF greater(incr(lastReqId), MaxReqId) THEN <<0, 1>> ELSE incr(lastReqId)

\* The client after its constructor.  Requests are numbered in the order of
\* their calls: issued[n] is the id of the n-th, resolved[n] the calls of its
\* resolve function, timers the requests whose setTimeout is pending, asked
\* the requests the supervisor has neither answered nor dropped, requests the
\* table this.requests (id -> the request whose resolve and timeoutId it
\* holds), calls the calls of the generic onMessage handler.
NewClient ==
  [lastReqId |-> <<0, 1>>, requests |-> EmptyMap, timers |-> {}, asked |-> {},
   issued |-> <<>>, resolved |-> <<>>, calls |-> 0, sigints |-> 0, runs |-> 0,
   step |-> [op |-> "new", n |-> 0]]

\* request.resolve(value), called by a reply or by the timer of request `by`
resolve(c, n, how, by) ==
  [c EXCEPT !.resolved[n] = Append(@, [how |-> how, by |-> by])]

\* request(msg)
request(c) ==
  LET reqId == getReqId(c.lastReqId)
      n == Len(c.issued) + 1
  IN [c EXCEPT !.lastReqId = reqId,
               !.issued = Append(@, reqId), !.resolved = Append(@, <<>>),
               !.timers = @ \cup {n},
               !.requests = Put(@, reqId, n),
               !.asked = @ \cup {n}]

\* a timer callback that leaves the entry in the table
onTimeoutKeepsEntry(c, n) ==
  LET reqId == c.issued[n]
      c1 == [c EXCEPT !.timers = @ \ {n}]
  IN IF reqId \in DOMAIN c1.requests
     THEN resolve(c1, c1.requests[reqId], "undefined", n)
     ELSE c1

\* the callback of the setTimeout of the n-th request
onTimeout(c, n) ==
  LET reqId == c.issued[n]
      c1 == [c EXCEPT !.timers = @ \ {n}]
  IN IF reqId \in DOMAIN c1.requests
     THEN resolve([c1 EXCEPT !.requests = Drop(@, reqId)],
                  c1.requests[reqId], "undefined", n)
     ELSE c1

\* the messages a child process gets: an object with a numeric _reqId (the
\* reply to the n-th request), another object, a string
Reply(reqId, n) == [kind |-> "reply", reqId |-> reqId, n |-> n, text |-> ""]
Pushes ==
  {[kind |-> "object", reqId |-> <<0, 0>>, n |-> 0, text |-> ""],
   [kind |-> "string", reqId |-> <<0, 0>>, n |-> 0, text |-> "SIGINT"],
   [kind |-> "string", reqId |-> <<0, 0>>, n |-> 0, text |-> "x"]}

\* onMsg(msg)
onMsg(c, msg) ==
  CASE msg.kind = "reply" ->
         IF msg.reqId \in DOMAIN c.requests
         THEN LET n == c.requests[msg.reqId] IN
              resolve([c EXCEPT !.requests = Drop(@, msg.reqId),
                                !.timers = @ \ {n}], n, "reply", msg.n)
         ELSE c
    [] msg.kind = "string" ->
         IF msg.text = "SIGINT" THEN [c EXCEPT !.sigints = @ + 1] ELSE c
    [] OTHER -> [c EXCEPT !.calls = @ + 1]

(* ----------------------------- Init ------------------------------------ *)
\* after the constructor and init() up to its await of loadConfig
InitKernel(l, docs, miss) ==
  /\ lim = l
  /\ heap = EmptyMap /\ conf = EmptyMap /\ confOk = TRUE
  /\ services = EmptyMap /\ childs = <<>> /\ apiKeys = EmptyMap /\ nextKey = 1
  /\ handles = EmptyMap /\ procs = EmptyMap /\ nextPid = 1
  /\ disk \in docs
  /\ tasks = {[Task(0, "init", "load") EXCEPT !.doc = disk]}
  /\ missing \in miss
  /\ used = [loads |-> 0, msgs |-> 0, probes |-> 0, exits |-> 0, sigs |-> 0]
  /\ exited = FALSE /\ sent = NoMsg /\ evt = Ev("init", Null, "", NoName)
  /\ client = NewClient

InitWith(l, docs, miss) ==
  InitKernel(l, docs, miss) /\ hook = Null /\ lookup = Null

(* ---------------------------- actions ---------------------------------- *)
\* the services-config file changes: the watchFile callback starts loadConfig
ConfigChanged(d) ==
  /\ ~exited /\ used.loads < lim.loads
  /\ disk' = d /\ UNCHANGED missing
  /\ Commit(Kernel, tasks \cup {[Task(nextId, "watch", "load") EXCEPT !.doc = d]},
            [used EXCEPT !.loads = @ + 1], Ev("change", Null, "", NoName))

\* loadConfig returns in init() or in the watchFile callback
LoadDone(t) ==
  /\ ~exited /\ t.phase = "load"
  /\ LET K == IF t.kind = "init" THEN init(Kernel, t.doc) ELSE watchConfig(Kernel, t.doc)
         r == Suspend(K, t, "run")
     IN Commit(r.K, (tasks \ {t}) \cup r.T, used, Ev(t.kind, Null, "", NoName))
  /\ UNCHANGED <<missing, disk>>

\* resolveModulePath returns in a suspended startService
ResolveDone(t, s) ==
  /\ ~exited /\ s \in t.starts /\ s.st = "resolve"
  /\ LET K == startServiceResume(Kernel, s.config, heap[s.config].name \notin missing)
         t1 == [t EXCEPT !.starts = @ \ {s},
                         !.body = IF K.err THEN "none" ELSE @]
         r == Settle(clean(K), t1)
     IN Commit(r.K, (tasks \ {t}) \cup r.T, used,
               Ev("startService", Null, "", heap[s.config].name))
  /\ UNCHANGED <<missing, disk>>

\* a child process exits while the handle's own listeners are attached
ChildExit(pid, code) ==
  /\ ~exited /\ procs[pid].lst = "normal"
  /\ used.exits < lim.exits
  /\ LET h == procs[pid].hid
         K == onExit([Kernel EXCEPT !.procs = Drop(@, pid)], h, code)
     IN Commit(K, tasks, [used EXCEPT !.exits = @ + 1],
               [Ev("exit", h, "", procs[pid].name) EXCEPT !.arg = code])
  /\ UNCHANGED <<missing, disk>>

\* an exit listener of stop() that leaves the kill timer armed
StoppedExitKeepsTimer(pid) ==
  /\ ~exited /\ procs[pid].lst = "stop"
  /\ LET h == procs[pid].hid
         K == [Kernel EXCEPT !.procs = Drop(@, pid),
                             !.handles[h].dead = TRUE,
                             !.handles[h].process = Null]
         r == SettleAll(K, {resolved(t, h) : t \in tasks}, {})
     IN Commit(r.K, r.T, used, Ev("stopped", h, "", procs[pid].name))
  /\ UNCHANGED <<missing, disk>>

\* a child process that is being stopped exits: the listener of stop()
StoppedExit(pid) ==
  /\ ~exited /\ procs[pid].lst = "stop"
  /\ LET h == procs[pid].hid
         K == [Kernel EXCEPT !.procs = Drop(@, pid),
                             !.handles[h].dead = TRUE,
                             !.handles[h].killTimeoutId = FALSE,
                             !.handles[h].process = Null]
         r == SettleAll(K, {resolved(t, h) : t \in tasks}, {})
     IN Commit(r.K, r.T, used, Ev("stopped", h, "", procs[pid].name))
  /\ UNCHANGED <<missing, disk>>

\* the kill timer of stop() fires
KillTimeout(h) ==
  /\ ~exited /\ handles[h].killTimeoutId
  /\ Commit([Kernel EXCEPT !.handles[h].killTimeoutId = FALSE,
                           !.procs[handles[h].process].sig = 2],
            tasks, used, Ev("kill", h, "", NoName))
  /\ UNCHANGED <<missing, disk>>

\* the restart timer set by onExit fires: start()
RestartTimeout(h) ==
  /\ ~exited /\ handles[h].restartTimeoutId
  /\ Commit(start([Kernel EXCEPT !.handles[h].restartTimeoutId = FALSE], h),
            tasks, used, Ev("restart", h, "", NoName))
  /\ UNCHANGED <<missing, disk>>

\* the runBeforeStart hooks of a suspended start() are done: fork
StartHooksDone(h) ==
  /\ ~exited /\ handles[h].starting
  /\ Commit(startAfterHooks([Kernel EXCEPT !.handles[h].starting = FALSE], h),
            tasks, used, Ev("forked", h, "", NoName))
  /\ UNCHANGED <<missing, disk>>

\* the pause of waitBeforeStart of a suspended start() is over: fork
StartPauseDone(h) ==
  /\ ~exited /\ handles[h].startPause
  /\ Commit(fork([Kernel EXCEPT !.handles[h].startPause = FALSE], h),
            tasks, used, Ev("forked", h, "", NoName))
  /\ UNCHANGED <<missing, disk>>

\* the runAfterExit hooks of a suspended onExit are done
ExitHooksDone(h) ==
  /\ ~exited /\ handles[h].exiting >= 0
  /\ Commit(onExitAfterHooks([Kernel EXCEPT !.handles[h].exiting = -1], h,
                             handles[h].exiting),
            tasks, used, Ev("afterExit", h, "", NoName))
  /\ UNCHANGED <<missing, disk>>

\* the pause of waitAfterExit of a suspended onExit is over
ExitPauseDone(h) ==
  /\ ~exited /\ handles[h].exitPause >= 0
  /\ Commit(scheduleRestart([Kernel EXCEPT !.handles[h].exitPause = -1], h,
                            handles[h].exitPause),
            tasks, used, Ev("afterExit", h, "", NoName))
  /\ UNCHANGED <<missing, disk>>

\* a module file appears in the services directory
InstallModule(n) ==
  /\ ~exited /\ n \in missing
  /\ missing' = missing \ {n} /\ UNCHANGED disk
  /\ Commit(Kernel, tasks, used, Ev("install", Null, "", n))

\* the supervisor receives SIGINT: restartServer
Sigint ==
  /\ ~exited /\ used.sigs < lim.sigs
  /\ LET r == Suspend(restartServer(Kernel), Task(nextId, "sigint", "shutdown"), "shutdown")
     IN Commit(r.K, tasks \cup r.T, [used EXCEPT !.sigs = @ + 1],
               Ev("SIGINT", Null, "", NoName))
  /\ UNCHANGED <<missing, disk>>

(* ----------------------- messages from a child ------------------------- *)
\* a getServicesList whose status tells whether the service runs
getServicesListRunning(K) ==
  LET RECURSIVE entries(_)
      entries(S) ==
        IF S = {} THEN <<>>
        ELSE LET serviceName == CHOOSE n \in S : TRUE
                 has == serviceName \in DOMAIN K.services
             IN << [serviceName |-> serviceName,
                    api |-> IF has THEN K.handles[K.services[serviceName]].api
                            ELSE <<>>,
                    status |-> has /\ ~K.handles[K.services[serviceName]].dead] >>
                \o entries(S \ {serviceName})
  IN entries(DOMAIN K.conf)

\* getServicesList: one entry for every key of config.services (the order of
\* the keys is not modelled)
getServicesList(K) ==
  LET RECURSIVE entries(_)
      entries(S) ==
        IF S = {} THEN <<>>
        ELSE LET serviceName == CHOOSE n \in S : TRUE
                 has == serviceName \in DOMAIN K.services
             IN << [serviceName |-> serviceName,
                    api |-> IF has THEN K.handles[K.services[serviceName]].api
                            ELSE <<>>,
                    status |-> has] >>
                \o entries(S \ {serviceName})
  IN entries(DOMAIN K.conf)

Methods == {"getApiKey", "restartService", "stopService", "startService",
            "restartServer", "getServicesList", "other"}
TargetMethods == {"getApiKey", "restartService", "stopService", "startService"}

Done(K) == [K |-> K, T |-> {}]
MsgTask(h, reqId, body) ==
  [Task(nextId, "msg", "waiting") EXCEPT !.h = h, !.pid = handles[h].process,
                                         !.reqId = reqId, !.body = body]

\* await this.stopService(serviceName)
awaitStop(K, serviceName) ==
  LET K1 == stopService(clean(K), serviceName) IN
  IF serviceName \in DOMAIN K.services /\ stopPending(K1, K.services[serviceName])
  THEN [K1 EXCEPT !.wait = {K.services[serviceName]}] ELSE K1

\* restartServiceQuery
restartServiceQuery(K, serviceName) ==
  IF ~K.confOk THEN [K EXCEPT !.err = TRUE]
  ELSE IF serviceName \in DOMAIN K.conf
       THEN startService(clean(K), K.conf[serviceName])
       ELSE awaitStop(K, serviceName)

\* startServiceQuery
startServiceQuery(K, serviceName) ==
  IF ~K.confOk THEN [K EXCEPT !.err = TRUE]
  ELSE IF serviceName \in DOMAIN K.conf
          /\ (serviceName \notin DOMAIN K.services
              \/ K.handles[K.services[serviceName]].dead)
       THEN startService(clean(K), K.conf[serviceName])
       ELSE clean(K)

\* query(service, msg) followed by this.reply(result, msg._reqId)
query(K, h, method, serviceName, reqId) ==
  CASE method = "getApiKey" ->
         IF checkPermissions(K, h, serviceName) /\ K.confOk
         THEN Done(reply(K, h, "apiKey", reqId, serviceName,
                         getApiKeyQuery(K, serviceName)))
         ELSE Done(K)
    [] method = "restartService" ->
         IF checkPermissions(K, h, NSRVM)
         THEN Suspend(restartServiceQuery(K, serviceName),
                      MsgTask(h, reqId, "status"), "waiting")
         ELSE Done(K)
    [] method = "stopService" ->
         IF checkPermissions(K, h, NSRVM)
         THEN Suspend(awaitStop(K, serviceName), MsgTask(h, reqId, "status"), "waiting")
         ELSE Done(K)
    [] method = "startService" ->
         IF checkPermissions(K, h, NSRVM)
         THEN Suspend(startServiceQuery(K, serviceName),
                      MsgTask(h, reqId, "status"), "waiting")
         ELSE Done(K)
    [] method = "restartServer" ->
         IF checkPermissions(K, h, NSRVM)
         THEN Suspend(restartServer(clean(K)), MsgTask(h, reqId, "none"), "shutdown")
         ELSE Done(K)
    [] method = "getServicesList" ->
         IF checkPermissions(K, h, NSRVM) /\ K.confOk
         THEN LET R == reply(K, h, "list", reqId, NoName, Null) IN
              Done(IF R.sent = NoMsg THEN R
                   ELSE [R EXCEPT !.sent.services = getServicesList(K)])
         ELSE Done(K)
    [] OTHER -> Done(K)

core(K) == <<K.heap, K.conf, K.confOk, K.services, K.childs, K.apiKeys,
             K.handles, K.procs, K.exited>>

\* the end of an onMessage step; a message that changes nothing but the
\* reply it gets counts as a probe
Deliver(r, e) ==
  LET changed == r.T # {} \/ core(r.K) # core(Kernel) IN
  /\ IF changed THEN used.msgs < lim.msgs ELSE used.probes < lim.probes
  /\ Commit(r.K, tasks \cup r.T,
            IF changed THEN [used EXCEPT !.msgs = @ + 1]
            ELSE [used EXCEPT !.probes = @ + 1], e)
  /\ UNCHANGED <<missing, disk>>

\* onMessage is attached, and the message is an object
Receives(pid) == ~exited /\ procs[pid].lst = "normal"
Ignored(pid) == handles[procs[pid].hid].dead

\* cmd 'getConfig'
GetConfig(pid) ==
  /\ Receives(pid)
  /\ LET h == procs[pid].hid
         n == nameOf(Kernel, h)
     IN Deliver(IF Ignored(pid) THEN Done(Kernel)
                ELSE Done(reply(Kernel, h, "config", ReqId, n,
                                IF n \in DOMAIN apiKeys THEN apiKeys[n] ELSE Null)),
                Ev("getConfig", h, "", NoName))

\* cmd 'api'
Api(pid, method, serviceName) ==
  /\ Receives(pid)
  /\ (method \in TargetMethods) = (serviceName # NoName)
  /\ LET h == procs[pid].hid
     IN Deliver(IF Ignored(pid) THEN Done(Kernel)
                ELSE query(Kernel, h, method, serviceName, ReqId),
                Ev("api", h, method, serviceName))

\* cmd 'setPublicApi'
SetPublicApi(pid, api) ==
  /\ Receives(pid)
  /\ LET h == procs[pid].hid
     IN Deliver(IF Ignored(pid) THEN Done(Kernel)
                ELSE Done(reply(setPublicApi(Kernel, h, api), h, "empty", ReqId,
                                NoName, Null)),
                [Ev("setPublicApi", h, "", NoName) EXCEPT !.arg = api])

\* cmd 'exit'
Exit(pid) ==
  /\ Receives(pid)
  /\ LET h == procs[pid].hid
     IN Deliver(IF Ignored(pid) THEN Done(Kernel)
                ELSE Suspend(awaitStop(Kernel, nameOf(Kernel, h)),
                             MsgTask(h, ReqId, "empty"), "waiting"),
                Ev("exit-cmd", h, "", NoName))

\* the names of the childs of h's service that do not occur in configs
removedNames(K, h, configs) ==
  IF hasChilds(K, nameOf(K, h))
  THEN {K.heap[o].name : o \in Range(childsOf(K, nameOf(K, h)))}
       \ {configs[i].name : i \in DOMAIN configs}
  ELSE {}

\* cmd 'setChildServices' with a handle that passes every value on
SetChildServicesUnchecked(pid, configs) ==
  /\ Receives(pid)
  /\ LET h == procs[pid].hid
     IN Deliver(IF Ignored(pid) THEN Done(Kernel)
                ELSE Suspend(setChildServices(Kernel, h, configs.items),
                             [MsgTask(h, ReqId, "empty") EXCEPT
                                !.removed = removedNames(Kernel, h, configs.items)],
                             "run"),
                [Ev("setChildServices", h, "", NoName) EXCEPT !.arg = configs])

\* cmd 'setChildServices'
SetChildServices(pid, configs) ==
  /\ Receives(pid)
  /\ LET h == procs[pid].hid
     IN Deliver(IF Ignored(pid) THEN Done(Kernel)
                ELSE IF configs.isArray
                        /\ Len(configs.items) <= cfgOf(Kernel, h).maxChilds
                     THEN Suspend(setChildServices(Kernel, h, configs.items),
                                  [MsgTask(h, ReqId, "empty") EXCEPT
                                     !.removed = removedNames(Kernel, h, configs.items)],
                                  "run")
                     ELSE Done(reply(Kernel, h, "empty", ReqId, NoName, Null)),
                [Ev("setChildServices", h, "", NoName) EXCEPT !.arg = configs])

\* any other cmd
Unknown(pid) ==
  /\ Receives(pid)
  /\ LET h == procs[pid].hid
     IN Deliver(IF Ignored(pid) THEN Done(Kernel)
                ELSE Done(reply(Kernel, h, "empty", ReqId, NoName, Null)),
                Ev("unknown", h, "", NoName))

ConfigsValues ==
  {[isArray |-> FALSE, items |-> <<>>]} \cup {[isArray |-> TRUE, items |-> l] : l \in ChildLists}
(* ------------------- API-key stability (init and reloads) -------------- *)
KeysLoads == 1
KeysProbes == 1

InitKeys ==
  InitWith([loads |-> KeysLoads, msgs |-> 0, probes |-> KeysProbes,
            exits |-> 0, sigs |-> 0], {"pq"}, {{}})

NextKeys ==
  \/ \E d \in {"pq", "pq2", "q"} : ConfigChanged(d)
  \/ \E t \in tasks : LoadDone(t)
  \/ \E t \in tasks : \E s \in t.starts : ResolveDone(t, s)
  \/ \E pid \in DOMAIN procs : StoppedExit(pid)
  \/ \E h \in DOMAIN handles : StartHooksDone(h)
  \/ \E pid \in DOMAIN procs : GetConfig(pid)

SpecKeys == InitKeys /\ [][NextKeys]_vars

\* C3: once apiKeys[name] has a value it keeps that value in every later
\* state of the supervisor.
C3_KeysNeverRotated ==
  [][\A n \in DOMAIN apiKeys : n \in DOMAIN apiKeys' /\ apiKeys'[n] = apiKeys[n]]_vars

(* --------------- capabilities: who gets a key, who may command ---------- *)
CapsMsgs == 1
CapsProbes == 1

InitCaps ==
  InitWith([loads |-> 0, msgs |-> CapsMsgs, probes |-> CapsProbes,
            exits |-> 0, sigs |-> 0], {"pq"}, {{}})

\* the requests come from the services of the config file, p (which holds
\* "nsrvm") and q (which does not), and name q or p's child c
CapsCallers == {pid \in DOMAIN procs : procs[pid].name \in {"p", "q"}}

NextCaps ==
  \/ \E t \in tasks : LoadDone(t)
  \/ \E t \in tasks : \E s \in t.starts : ResolveDone(t, s)
  \/ \E pid \in DOMAIN procs : StoppedExit(pid)
  \/ \E pid \in CapsCallers : GetConfig(pid)
  \/ \E pid \in CapsCallers : \E m \in Methods : \E n \in {"q", "c", NoName} :
       Api(pid, m, n)
  \/ \E pid \in CapsCallers :
       SetChildServices(pid, [isArray |-> TRUE,
                              items |-> << SC("c", 1, <<>>, NoMax, FALSE, FALSE) >>])

SpecCaps == InitCaps /\ [][NextCaps]_vars

\* the step is the dispatch of a message of a child
IsMessage == evt' # evt /\ evt'.reqId = ReqId
\* allowedAPI of the caller when the request is dispatched
CallerAllowed == heap[handles[evt'.h].config].allowedAPI
CallerName == heap[handles[evt'.h].config].name

\* C1: a message to a child carries an API key only as the reply to its own
\* getConfig (the key of its own name) or as the reply to a getApiKey for a
\* name that is in the caller's allowedAPI at dispatch (the key of that name);
\* a getApiKey for a name outside the caller's allowedAPI gets no reply.
C1_KeyOnlyToSelfOrPermitted ==
  [][/\ sent'.apiKey # Null =>
          /\ IsMessage /\ sent'.hid = evt'.h
          /\ \/ /\ evt'.op = "getConfig" /\ sent'.body = "config"
                /\ CallerName \in DOMAIN apiKeys
                /\ sent'.apiKey = apiKeys[CallerName]
             \/ /\ evt'.op = "api" /\ evt'.method = "getApiKey"
                /\ sent'.body = "apiKey"
                /\ includes(CallerAllowed, evt'.serviceName)
                /\ evt'.serviceName \in DOMAIN apiKeys
                /\ sent'.apiKey = apiKeys[evt'.serviceName]
     /\ (IsMessage /\ evt'.op = "api" /\ evt'.method = "getApiKey"
         /\ ~includes(CallerAllowed, evt'.serviceName)) => sent' = NoMsg
    ]_vars

\* a live caller was refused the key of an existing service
C1_Witness ==
  /\ evt.op = "api" /\ evt.method = "getApiKey"
  /\ evt.h \in DOMAIN handles /\ ~handles[evt.h].dead
  /\ evt.serviceName \in DOMAIN apiKeys
  /\ ~includes(heap[handles[evt.h].config].allowedAPI, evt.serviceName)
  /\ sent = NoMsg

\* a key was handed out by getApiKey (the permitted case is exercised too)
C1_KeyGranted ==
  /\ evt.op = "api" /\ evt.method = "getApiKey" /\ sent.apiKey # Null

SupervisorMethods ==
  {"restartService", "stopService", "startService", "restartServer",
   "getServicesList"}

\* C2: an api request with a supervisor-wide method whose caller lacks "nsrvm"
\* in allowedAPI at dispatch sends no reply and leaves services, childs,
\* apiKeys, the config and every handle and process as they were.
C2_DeniedChangesNothing ==
  [][(/\ IsMessage /\ evt'.op = "api" /\ evt'.method \in SupervisorMethods
      /\ ~includes(CallerAllowed, NSRVM))
     => /\ sent' = NoMsg
        /\ UNCHANGED <<services, childs, apiKeys, conf, confOk, heap, handles,
                       procs, tasks, exited>>
    ]_vars

\* a live caller without "nsrvm" asked to restart a running service
C2_Witness ==
  /\ evt.op = "api" /\ evt.method = "restartService"
  /\ evt.h \in DOMAIN handles /\ ~handles[evt.h].dead
  /\ ~includes(heap[handles[evt.h].config].allowedAPI, NSRVM)
  /\ evt.serviceName \in DOMAIN services
  /\ handles[services[evt.serviceName]].process # Null

(* ------------- handle life cycle: exits, restarts, start hooks ---------- *)
LifeMsgs == 1
LifeExits == 1
LifeSigs == 1

InitLife ==
  InitWith([loads |-> 0, msgs |-> LifeMsgs, probes |-> 0,
            exits |-> LifeExits, sigs |-> LifeSigs], {"pqh"}, {{}})

NextLife ==
  \/ \E t \in tasks : LoadDone(t)
  \/ \E t \in tasks : \E s \in t.starts : ResolveDone(t, s)
  \/ \E pid \in DOMAIN procs : \E code \in {0, 1} : ChildExit(pid, code)
  \/ \E pid \in DOMAIN procs : StoppedExit(pid)
  \/ \E h \in DOMAIN handles : KillTimeout(h)
  \/ \E h \in DOMAIN handles : RestartTimeout(h)
  \/ \E h \in DOMAIN handles : StartHooksDone(h)
  \/ \E h \in DOMAIN handles : ExitHooksDone(h)
  \/ \E pid \in DOMAIN procs : \E m \in {"restartService", "stopService"} :
       Api(pid, m, "q")
  \/ Sigint

SpecLife == InitLife /\ [][NextLife]_vars

C4_InHooks ==
  \E n \in DOMAIN services :
    LET hd == handles[services[n]] IN ~hd.dead /\ hd.starting /\ hd.process = Null

\* C5: for every handle, dead is true if and only if no process is attached.
C5_DeadIffNoProcess ==
  \A h \in DOMAIN handles : handles[h].dead <=> (handles[h].process = Null)

\* a handle that was stopped while its start hooks ran forked afterwards:
\* dead, with a running child attached
C5_Zombie ==
  \E h \in DOMAIN handles :
    /\ handles[h].dead /\ handles[h].stopCalled
    /\ handles[h].process \in DOMAIN procs

(* ------------------ reconciliation: passes and their overlap ------------ *)
ReconLoads == 1

InitRecon ==
  InitWith([loads |-> ReconLoads, msgs |-> 0, probes |-> 0,
            exits |-> 0, sigs |-> 0], {"pq"}, {{}})

NextRecon ==
  \/ \E d \in {"pq2", "q", "bad"} : ConfigChanged(d)
  \/ \E t \in tasks : LoadDone(t)
  \/ \E t \in tasks : \E s \in t.starts : ResolveDone(t, s)
  \/ \E pid \in DOMAIN procs : StoppedExit(pid)
  \/ \E h \in DOMAIN handles : StartHooksDone(h)

SpecRecon == InitRecon /\ [][NextRecon]_vars

\* C6: every name in the services map is a key of config.services.
C6_ServicesAreDesired ==
  \A n \in DOMAIN services : n \in DOMAIN conf

\* a startService suspended by one pass resumed after a reload had removed
\* its name from the desired map, and no operation is left to undo it
C6_Orphan ==
  /\ tasks = {} /\ used.exits = 0
  /\ \E n \in DOMAIN services :
       /\ n \notin DOMAIN conf
       /\ handles[services[n]].process \in DOMAIN procs

\* the steps that run the body of runServices: its stop phase and, when no
\* stop has to be awaited or after the awaited stops, its refresh and start
\* phase
PassSteps == {"init", "watch", "setChildServices", "stopped"}

\* C7: a step of a reconciliation pass neither stops nor replaces a service
\* that has a running process and whose name and apiPort are the same in its
\* handle's config and in the desired config of the pass: the name keeps its
\* handle, the handle its process, and the process gets no signal.
C7_UnchangedNotRestarted ==
  [][evt'.op \in PassSteps =>
       \A n \in DOMAIN services :
         LET h == services[n]
             pid == handles[h].process
             old == heap[handles[h].config]
         IN (/\ pid # Null /\ ~handles[h].dead
             /\ n \in DOMAIN conf'
             /\ heap'[conf'[n]].name = old.name
             /\ heap'[conf'[n]].apiPort = old.apiPort)
            => /\ n \in DOMAIN services' /\ services'[n] = h
               /\ handles'[h].process = pid /\ ~handles'[h].dead
               /\ pid \in DOMAIN procs' /\ procs'[pid] = procs[pid]
    ]_vars

\* a reload stopped one service and is awaiting its exit, while a service
\* with the same name and apiPort as before keeps running
C7_Witness ==
  /\ evt.op = "watch"
  /\ \E t \in tasks : t.kind = "watch" /\ t.phase = "stopping"
  /\ \E pid \in DOMAIN procs : procs[pid].lst = "stop"
  /\ \E n \in DOMAIN services :
       LET h == services[n] IN
         /\ handles[h].process \in DOMAIN procs
         /\ procs[handles[h].process].lst = "normal"
         /\ n \in DOMAIN conf
         /\ heap[conf[n]].apiPort = procs[handles[h].process].port

\* C8: when a pass has completed, no control operation is in progress and no
\* child has exited, the live set is the desired set: every desired service
\* whose module resolves has a non-dead handle in services, and services holds
\* no handle whose name is not desired or whose process was started under
\* another apiPort than the desired one.
C8_LiveEqualsDesired ==
  (tasks = {} /\ used.exits = 0 /\ confOk) =>
    /\ \A n \in DOMAIN conf :
         n \notin missing =>
           n \in DOMAIN services /\ ~handles[services[n]].dead
    /\ \A n \in DOMAIN services :
         /\ n \in DOMAIN conf
         /\ handles[services[n]].process \in DOMAIN procs =>
              procs[handles[services[n]].process].port = heap[conf[n]].apiPort

(* ------------------ sub-services: parents and their childs -------------- *)
ChildsLoads == 1
ChildsMsgs == 3

InitChilds ==
  InitWith([loads |-> ChildsLoads, msgs |-> ChildsMsgs, probes |-> 0,
            exits |-> 0, sigs |-> 0], {"pq"}, {{}})

\* the file changes only after init() has returned; a service registers its
\* childs once; the one to send the exit command is p
NextChilds ==
  \/ \E d \in {"pq"} : (\A t \in tasks : t.kind # "init") /\ ConfigChanged(d)
  \/ \E t \in tasks : LoadDone(t)
  \/ \E t \in tasks : \E s \in t.starts : ResolveDone(t, s)
  \/ \E pid \in DOMAIN procs : StoppedExit(pid)
  \/ \E pid \in DOMAIN procs :
       /\ ~hasChilds(Kernel, procs[pid].name)
       /\ SetChildServices(pid, [isArray |-> TRUE,
                                 items |-> << SC("c", 1, <<>>, NoMax, FALSE, FALSE) >>])
  \/ \E pid \in DOMAIN procs : procs[pid].name = "p" /\ Exit(pid)

SpecChilds == InitChilds /\ [][NextChilds]_vars

\* C9: when no reconciliation is in progress, every config c in childs[p] is
\* the desired config of its name with parent p, and the allowedAPI of the
\* config of p's live handle contains c.name.
C9_ChildsAssigned ==
  tasks = {} =>
    \A i \in DOMAIN childs : \A j \in DOMAIN childs[i].configs :
      LET pn == childs[i].parent
          cn == heap[childs[i].configs[j]].name
      IN /\ cn \in DOMAIN conf /\ heap[conf[cn]].parent = pn
         /\ pn \in DOMAIN services =>
              includes(heap[handles[services[pn]].config].allowedAPI, cn)

\* after a reload the running parent has the config read from disk, and its
\* allowedAPI no longer names the child that is still registered and running
C9_PermissionLost ==
  /\ tasks = {} /\ evt.op \in {"watch", "startService", "stopped"}
  /\ \E i \in DOMAIN childs : \E j \in DOMAIN childs[i].configs :
       LET pn == childs[i].parent
           cn == heap[childs[i].configs[j]].name
       IN /\ pn \in DOMAIN services /\ cn \in DOMAIN services
          /\ handles[services[pn]].process \in DOMAIN procs
          /\ handles[services[cn]].process \in DOMAIN procs
          /\ heap[conf[cn]].parent = pn
          /\ ~includes(heap[handles[services[pn]].config].allowedAPI, cn)

\* the parents whose childs list holds a config named n
parentsOf(n) ==
  {childs[i].parent : i \in {k \in DOMAIN childs :
     \E j \in DOMAIN childs[k].configs : heap[childs[k].configs[j]].name = n}}

\* C10: no service name is claimed by two distinct parents: a name occurs in
\* childs[p] for at most one p.
C10_OneParentPerName ==
  \A n \in Names : Cardinality(parentsOf(n)) <= 1

\* both parents run, each with the name in its childs list and in the
\* allowedAPI of its config
C10_TwoParents ==
  \E n \in Names :
    /\ Cardinality(parentsOf(n)) = 2
    /\ \A pn \in parentsOf(n) :
         /\ pn \in DOMAIN services
         /\ handles[services[pn]].process \in DOMAIN procs
         /\ includes(heap[handles[services[pn]].config].allowedAPI, n)

(* -------------- the API client of a child: requests and replies --------- *)
ClientRequests == 3
ClientPushes == 1
ClientRuns == 1

kernel == <<heap, conf, confOk, services, childs, apiKeys, nextKey, handles,
            procs, nextPid, tasks, missing, disk, used, lim, exited, sent, evt>>

ClientStep(c, op, n) ==
  /\ client' = [c EXCEPT !.step = [op |-> op, n |-> n]]
  /\ UNCHANGED <<kernel, hook, lookup>>

\* the service calls request(msg)
Request ==
  /\ Len(client.issued) < ClientRequests
  /\ ClientStep(request(client), "request", Len(client.issued) + 1)

\* the reply of the supervisor to the n-th request arrives: onMsg
ReplyArrives(n) ==
  /\ n \in client.asked
  /\ ClientStep(onMsg([client EXCEPT !.asked = @ \ {n}], Reply(client.issued[n], n)),
                "reply", n)

\* the supervisor sends no reply to the n-th request (a denied api method,
\* a handle that is dead)
NoReply(n) ==
  /\ n \in client.asked
  /\ ClientStep([client EXCEPT !.asked = @ \ {n}], "noReply", n)

\* the timer of the n-th request expires
Timeout(n) ==
  /\ n \in client.timers
  /\ ClientStep(onTimeout(client, n), "timeout", n)

\* a message that is no reply arrives: onMsg
Push(msg) ==
  /\ client.calls + client.sigints < ClientPushes
  /\ ClientStep(onMsg(client, msg), "push", 0)

\* A long run of the service: it calls request() again and again, each call
\* answered before the next, until the id issued last is 0xffffffff.  The
\* run leaves the table as it was; a timer that was pending stays pending
\* (the timeout is a parameter of the client).  The supervisor answers a
\* request within the time of a stop or not at all, so no reply is in flight
\* over such a run.
AnsweredRun ==
  /\ client.runs < ClientRuns
  /\ client.asked = {}
  /\ greater(MaxReqId, client.lastReqId)
  /\ \A id \in DOMAIN client.requests : ~greater(id, client.lastReqId)
  /\ ClientStep([client EXCEPT !.lastReqId = MaxReqId, !.runs = @ + 1], "run", 0)

InitClient ==
  InitWith([loads |-> 0, msgs |-> 0, probes |-> 0, exits |-> 0, sigs |-> 0],
           {"pq"}, {{}})

NextClient ==
  \/ Request
  \/ \E n \in DOMAIN client.issued : ReplyArrives(n)
  \/ \E n \in DOMAIN client.issued : NoReply(n)
  \/ \E n \in DOMAIN client.issued : Timeout(n)
  \/ \E msg \in Pushes : Push(msg)
  \/ AnsweredRun

SpecClient == InitClient /\ [][NextClient]_vars

\* C13: every request is resolved exactly once, by the reply that carries its
\* id or by its own timer: no request has two calls of its resolve function,
\* none is resolved by the timer of another request, and a request that is
\* not resolved yet still has its entry in the table and its timer pending,
\* so that the reply or the timer will resolve it.
C13_ResolvedExactlyOnce ==
  \A n \in DOMAIN client.issued :
    LET r == client.resolved[n] IN
      /\ Len(r) <= 1
      /\ Len(r) = 1 => (r[1].how = "reply" \/ r[1].by = n)
      /\ Len(r) = 0 =>
           /\ n \in client.timers
           /\ client.issued[n] \in DOMAIN client.requests
           /\ client.requests[client.issued[n]] = n

\* the ids wrapped while a request was pending: the entry of the old request
\* was replaced by that of a new one with the same id, the old timer has
\* fired, and nothing is left that resolves the old request
C13_Lost ==
  \E n \in DOMAIN client.issued :
    /\ client.resolved[n] = <<>> /\ n \notin client.timers
    /\ \E m \in DOMAIN client.issued : m > n /\ client.issued[m] = client.issued[n]

\* C14: the step of a request's timer leaves no entry for its id in the
\* table; a reply to a request that its timer has resolved, arriving when
\* the table has no entry for its id, changes nothing in the client: no
\* resolve, no entry, no timer, no call of the generic onMessage handler.
C14_LateReplyIgnored ==
  [][/\ client'.step.op = "timeout" /\ client' # client
          => client.issued[client'.step.n] \notin DOMAIN client'.requests
     /\ (/\ client'.step.op = "reply" /\ client' # client
         /\ client.resolved[client'.step.n] # <<>>
         /\ client.resolved[client'.step.n][1].how = "undefined")
          => /\ client'.requests = client.requests
             /\ client'.resolved = client.resolved
             /\ client'.timers = client.timers
             /\ client'.calls = client.calls
             /\ client'.sigints = client.sigints
             /\ client'.lastReqId = client.lastReqId
    ]_vars

\* the reply to a request arrived after the request's timer had resolved it
C14_Witness ==
  /\ client.step.op = "reply"
  /\ client.resolved[client.step.n] = << [how |-> "undefined", by |-> client.step.n] >>
  /\ client.step.n \notin client.asked

\* C15: the id a request gets is in [1, 0xffffffff]; it is greater than the
\* id issued before it, except that the id after 0xffffffff is 1.
C15_ReqIdsIncreaseAndWrap ==
  [][(client'.step.op = "request" /\ client' # client) =>
       LET id == client'.issued[client'.step.n]
           before == client.lastReqId
       IN /\ id = client'.lastReqId
          /\ id # <<0, 0>> /\ ~greater(id, MaxReqId)
          /\ IF before = MaxReqId THEN id = <<0, 1>> ELSE greater(id, before)
    ]_vars

\* the request after the one with id 0xffffffff got id 1
C15_Witness ==
  /\ client.step.op = "request" /\ client.runs = 1
  /\ client.lastReqId = <<0, 1>>

(* --------------- setChildServices: values that are refused -------------- *)
RejectMsgs == 1
RejectProbes == 1

InitReject ==
  InitWith([loads |-> 0, msgs |-> RejectMsgs, probes |-> RejectProbes,
            exits |-> 0, sigs |-> 0], {"pq"}, {{}})

\* p and q may have one child each; they send a value that is no array, a
\* list of one config, and a list of two (no service is stopped by these)
RejectValues ==
  { [isArray |-> FALSE, items |-> <<>>],
    [isArray |-> TRUE, items |-> << SC("c", 1, <<>>, NoMax, FALSE, FALSE) >>],
    [isArray |-> TRUE, items |-> << SC("c", 1, <<>>, NoMax, FALSE, FALSE),
                                    SC("q", 1, <<>>, NoMax, FALSE, FALSE) >>] }

NextReject ==
  \/ \E t \in tasks : LoadDone(t)
  \/ \E t \in tasks : \E s \in t.starts : ResolveDone(t, s)
  \/ \E pid \in CapsCallers : \E c \in RejectValues : SetChildServices(pid, c)

SpecReject == InitReject /\ [][NextReject]_vars

\* C11: a setChildServices message of a live parent whose configs value is
\* no array or is longer than the parent's maxChilds leaves childs, the
\* desired map, every config (the parent's allowedAPI with them), the
\* services map, every handle and process as they were and starts no
\* operation, and the parent is sent the reply {} with the _reqId of the
\* request.
C11_RejectedChangesNothing ==
  [][(/\ IsMessage /\ evt'.op = "setChildServices"
      /\ ~handles[evt'.h].dead
      /\ \/ ~evt'.arg.isArray
         \/ Len(evt'.arg.items) > heap[handles[evt'.h].config].maxChilds)
     => /\ UNCHANGED <<childs, conf, confOk, heap, services, handles, procs,
                       tasks, apiKeys>>
        /\ sent' = [pid |-> handles[evt'.h].process, hid |-> evt'.h,
                    reqId |-> evt'.reqId, body |-> "empty",
                    serviceName |-> NoName, apiKey |-> Null,
                    asker |-> handles[evt'.h].process, services |-> <<>>]
    ]_vars

\* a parent with a registered, running child sent a list that is too long
C11_Witness ==
  /\ evt.op = "setChildServices" /\ evt.arg.isArray
  /\ Len(evt.arg.items) > heap[handles[evt.h].config].maxChilds
  /\ hasChilds(Kernel, nameOf(Kernel, evt.h))
  /\ "c" \in DOMAIN services /\ handles[services["c"]].process \in DOMAIN procs
  /\ sent.body = "empty" /\ sent.hid = evt.h

(* --------------- setChildServices: childs that are taken away ----------- *)
RemoveMsgs == 2
RemoveProbes == 1

InitRemove ==
  InitWith([loads |-> 0, msgs |-> RemoveMsgs, probes |-> RemoveProbes,
            exits |-> 0, sigs |-> 0], {"pq"}, {{}})

\* p or q registers the child c, and sends the empty list (no service is
\* stopped by these)
RemoveValues ==
  { [isArray |-> TRUE, items |-> <<>>],
    [isArray |-> TRUE, items |-> << SC("c", 1, <<>>, NoMax, FALSE, FALSE) >>] }

NextRemove ==
  \/ \E t \in tasks : LoadDone(t)
  \/ \E t \in tasks : \E s \in t.starts : ResolveDone(t, s)
  \/ \E pid \in CapsCallers : \E c \in RemoveValues : SetChildServices(pid, c)

SpecRemove == InitRemove /\ [][NextRemove]_vars

\* the name n is gone from the desired map, from the allowedAPI of the config
\* of handle h, and from the services map, in the state the step leads to
Gone(n, h) ==
  /\ n \notin DOMAIN conf'
  /\ ~includes(heap'[handles'[h].config].allowedAPI, n)
  /\ n \notin DOMAIN services'

\* C12: when an accepted setChildServices(P, L) completes (in the step that
\* dispatches it, or in the later step that ends its last wait), every name
\* of a config that was in childs[P] before the call and does not occur in L
\* is absent from config.services, from P's allowedAPI and from services.
C12_RemovedChildsGone ==
  [][/\ (/\ IsMessage /\ evt'.op = "setChildServices"
         /\ ~handles[evt'.h].dead
         /\ evt'.arg.isArray
         /\ Len(evt'.arg.items) <= heap[handles[evt'.h].config].maxChilds
         /\ \A t \in tasks' : t.id # nextId)
        => \A n \in removedNames(Kernel, evt'.h, evt'.arg.items) : Gone(n, evt'.h)
     /\ \A t \in tasks :
          (/\ t.kind = "msg" /\ t.removed # {} /\ confOk'
           /\ \A u \in tasks' : u.id # t.id)
          => \A n \in t.removed : Gone(n, t.h)
    ]_vars

\* p had registered c and then sent the empty list; the call has completed
\* and p got its reply, and c is desired, permitted to p and running
C12_StillThere ==
  /\ evt.op = "setChildServices" /\ evt.arg.isArray /\ evt.arg.items = <<>>
  /\ sent.body = "empty" /\ sent.hid = evt.h
  /\ tasks = {}
  /\ "c" \in DOMAIN conf /\ "c" \in DOMAIN services
  /\ handles[services["c"]].process \in DOMAIN procs
  /\ includes(heap[handles[evt.h].config].allowedAPI, "c")

\* C16: when the supervisor has called process.exit(0) at the end of
\* restartServer, no child process it spawned is still alive.
C16_NoChildSurvivesExit ==
  exited => DOMAIN procs = {}

\* the supervisor has exited and left a child running that was never sent a
\* signal: the child a startService, suspended when restartServer was called,
\* forked afterwards
C16_Survivor ==
  /\ exited
  /\ \E pid \in DOMAIN procs : procs[pid].lst = "normal" /\ procs[pid].sig = 0

(* ---------------- stop(): interrupt, kill timer, restart timer ---------- *)
StopMsgs == 1
StopExits == 1

InitStop ==
  InitWith([loads |-> 0, msgs |-> StopMsgs, probes |-> 0,
            exits |-> StopExits, sigs |-> 0], {"pqh"}, {{}})

\* p, which holds "nsrvm", asks to stop or to restart q, which has start and
\* exit hooks; a child crashes
NextStop ==
  \/ \E t \in tasks : LoadDone(t)
  \/ \E t \in tasks : \E s \in t.starts : ResolveDone(t, s)
  \/ \E pid \in DOMAIN procs : ChildExit(pid, 1)
  \/ \E pid \in DOMAIN procs : StoppedExit(pid)
  \/ \E h \in DOMAIN handles : KillTimeout(h)
  \/ \E h \in DOMAIN handles : RestartTimeout(h)
  \/ \E h \in DOMAIN handles : StartHooksDone(h)
  \/ \E h \in DOMAIN handles : ExitHooksDone(h)
  \/ \E pid \in DOMAIN procs : \E m \in {"restartService", "stopService"} :
       Api(pid, m, "q")

SpecStop == InitStop /\ [][NextStop]_vars

\* the operations that await the stop promise of handle h
awaiting(T, h) ==
  {t.id : t \in {u \in T : h \in u.wait \/ \E s \in u.starts : s.prev = h}}

\* C17: a process that stop() is stopping was sent one interrupt and has had
\* one kill timer armed, a process that is not being stopped none; SIGKILL
\* has been sent to it exactly if that timer has expired while it was alive;
\* an operation that awaits the stop promise of a handle goes on only in the
\* step of the exit event of the handle's process, and after that step the
\* process is gone, the kill timer is cancelled and the handle is dead and
\* has no process.
C17_StopProtocol ==
  /\ [](\A pid \in DOMAIN procs :
          LET pr == procs[pid] IN
            /\ pr.lst = "normal" => pr.ints = 0 /\ pr.timers = 0 /\ pr.sig = 0
            /\ pr.lst = "stop" =>
                 /\ pr.ints = 1 /\ pr.timers = 1
                 /\ handles[pr.hid].process = pid /\ ~handles[pr.hid].dead
                 /\ (pr.sig = 2) = ~handles[pr.hid].killTimeoutId
                 /\ (pr.sig = 1) = handles[pr.hid].killTimeoutId)
  /\ [][\A h \in DOMAIN handles :
          (awaiting(tasks, h) \ awaiting(tasks', h) # {}) =>
             /\ evt'.op = "stopped" /\ evt'.h = h
             /\ handles[h].process \notin DOMAIN procs'
             /\ h \in DOMAIN handles' =>
                  /\ handles'[h].dead /\ handles'[h].process = Null
                  /\ ~handles'[h].killTimeoutId
      ]_vars

\* the kill timer of a stop has expired: the process got SIGKILL, has not
\* exited yet, and the operation that stops it is still waiting
C17_Witness ==
  /\ evt.op = "kill"
  /\ \E pid \in DOMAIN procs :
       /\ procs[pid].lst = "stop" /\ procs[pid].sig = 2
       /\ awaiting(tasks, procs[pid].hid) # {}

\* C19: a step that calls stop() on a handle whose restart timer is pending
\* cancels the timer, is not the step of that timer, leaves the handle dead
\* and without a process, and leaves no operation waiting for that stop.
C19_StopCancelsRestart ==
  [][\A h \in DOMAIN handles :
       (/\ handles[h].restartTimeoutId
        /\ \/ h \notin DOMAIN handles'
           \/ handles'[h].stopCalled /\ ~handles[h].stopCalled)
       => /\ evt'.op # "restart"
          /\ awaiting(tasks', h) = {}
          /\ \A pid \in DOMAIN procs' : procs'[pid].hid # h
          /\ h \in DOMAIN handles' =>
               /\ ~handles'[h].restartTimeoutId
               /\ handles'[h].dead /\ handles'[h].process = Null
    ]_vars

\* q crashed and its restart timer was pending when p asked to stop q: the
\* reply went out in the step of the request, q is gone from services, and
\* no process was forked for it
C19_Witness ==
  /\ evt.op = "api" /\ evt.method = "stopService" /\ evt.serviceName = "q"
  /\ sent.body = "status" /\ tasks = {}
  /\ used.exits = 1 /\ nextPid = 3
  /\ "q" \notin DOMAIN services
  /\ \A pid \in DOMAIN procs : procs[pid].name = "p"
  /\ \A h \in DOMAIN handles :
       ~handles[h].restartTimeoutId /\ handles[h].exiting < 0

(* ------------------- a crash, its restart, and a reload ------------------ *)
CrashLoads == 1
CrashExits == 1

InitCrash ==
  InitWith([loads |-> CrashLoads, msgs |-> 0, probes |-> 0,
            exits |-> CrashExits, sigs |-> 0], {"pqh"}, {{}})

\* a child exits with code 0 or 1; the config file is rewritten with the same
\* contents after init() has returned (no running process is stopped by these)
NextCrash ==
  \/ \E d \in {"pqh"} : (\A t \in tasks : t.kind # "init") /\ ConfigChanged(d)
  \/ \E t \in tasks : LoadDone(t)
  \/ \E t \in tasks : \E s \in t.starts : ResolveDone(t, s)
  \/ \E pid \in DOMAIN procs : \E code \in {0, 1} : ChildExit(pid, code)
  \/ \E h \in DOMAIN handles : RestartTimeout(h)
  \/ \E h \in DOMAIN handles : StartHooksDone(h)
  \/ \E h \in DOMAIN handles : ExitHooksDone(h)

SpecCrash == InitCrash /\ [][NextCrash]_vars

\* the step forks a process for handle h
Forks(h) ==
  /\ h \in DOMAIN handles'
  /\ handles'[h].process = nextPid /\ nextPid' = nextPid + 1

\* C18: when a running child exits and no stop was requested, a restart is
\* scheduled for its handle exactly if the exit code is not 0 (at the exit,
\* or after the runAfterExit hooks), and the restart spawns exactly one new
\* process for the service: the step of the timer or of the end of its start
\* hooks forks one process, and no other process of that service exists then.
C18_OneRestartOneProcess ==
  [][/\ (evt'.op = "exit" /\ used'.exits # used.exits
         /\ evt'.h \in DOMAIN handles' /\ handles'[evt'.h].exiting < 0)
          => handles'[evt'.h].restartTimeoutId = (evt'.arg # 0)
     /\ (evt'.op = "afterExit" /\ evt'.h \in DOMAIN handles
         /\ handles[evt'.h].exiting >= 0
         /\ evt'.h \in DOMAIN handles')
          => handles'[evt'.h].restartTimeoutId = (handles[evt'.h].exiting # 0)
     /\ \A h \in DOMAIN handles :
          (/\ handles[h].restartTimeoutId \/ handles[h].starting
           /\ Forks(h))
          => /\ evt'.op \in {"restart", "forked"} /\ evt'.h = h
             /\ \A pid \in DOMAIN procs : procs[pid].name # nameOf(Kernel, h)
    ]_vars

\* a service runs twice: the handle in services has a process, and the handle
\* that a pass replaced while its exit hooks ran has been restarted by its
\* timer; no stop was ever requested for a running process
C18_TwoProcesses ==
  \E a, b \in DOMAIN procs :
    /\ a # b /\ procs[a].name = procs[b].name
    /\ procs[a].lst = "normal" /\ procs[b].lst = "normal"
    /\ procs[a].name \in DOMAIN services
    /\ handles[services[procs[a].name]].process = a
    /\ evt.op \in {"restart", "forked"} /\ evt.h = procs[b].hid

\* C20: a reply to a request is written only to the process that sent the
\* request: when the handle of the request has been dead between the request
\* and the reply, the reply is dropped.  (The handle a reply is written
\* through is never dead and has a process: reply() tests both.)
C20_ReplyOnlyToRequester ==
  [][\A t \in tasks :
       (/\ t.kind = "msg" /\ \A u \in tasks' : u.id # t.id
        /\ sent' # NoMsg /\ sent'.hid = t.h /\ sent'.reqId = t.reqId)
       => sent'.pid = t.pid
    ]_vars

\* the reply to a request of a process that has exited since was written to
\* the process that the restart timer forked on the same handle
C20_StaleReply ==
  /\ sent # NoMsg /\ sent.asker # sent.pid
  /\ sent.asker \notin DOMAIN procs
  /\ sent.pid \in DOMAIN procs /\ procs[sent.pid].hid = sent.hid
  /\ ~handles[sent.hid].dead /\ handles[sent.hid].process = sent.pid

(* ------------------ messages that are protocol faults -------------------- *)
FaultMsgs == 1
FaultProbes == 1

InitFault ==
  InitWith([loads |-> 0, msgs |-> FaultMsgs, probes |-> FaultProbes,
            exits |-> 0, sigs |-> 0], {"pq"}, {{}})

\* the lists of sub-service configs p and q send: one config, and a list
\* whose only entry is null
FaultValues ==
  { [isArray |-> TRUE, items |-> << SC("c", 1, <<>>, NoMax, FALSE, FALSE) >>],
    [isArray |-> TRUE, items |-> << NotAnObject >>] }

NextFault ==
  \/ \E t \in tasks : LoadDone(t)
  \/ \E t \in tasks : \E s \in t.starts : ResolveDone(t, s)
  \/ \E pid \in CapsCallers : Unknown(pid)
  \/ \E pid \in CapsCallers : \E api \in ApiValues : SetPublicApi(pid, api)
  \/ \E pid \in CapsCallers : \E c \in FaultValues : SetChildServices(pid, c)

SpecFault == InitFault /\ [][NextFault]_vars

\* the message dispatched by the step is a protocol fault: a cmd that is not
\* known, a setPublicApi whose list is not valid, or a setChildServices whose
\* list holds an entry that is no object
IsFault ==
  \/ evt'.op = "unknown"
  \/ evt'.op = "setPublicApi" /\ ~validateAPI(evt'.arg)
  \/ /\ evt'.op = "setChildServices" /\ evt'.arg.isArray
     /\ \E i \in DOMAIN evt'.arg.items : evt'.arg.items[i] = NotAnObject

\* C21: a message of a live child that is a protocol fault leaves every
\* handle, process and the supervisor's maps as they were, starts no
\* operation, and is answered by one reply with an empty body and the _reqId
\* of the message.
C21_FaultGetsEmptyReply ==
  [][(IsMessage /\ ~handles[evt'.h].dead /\ IsFault)
     => /\ UNCHANGED <<childs, conf, confOk, heap, services, handles, procs,
                       tasks, apiKeys>>
        /\ sent' = [pid |-> handles[evt'.h].process, hid |-> evt'.h,
                    reqId |-> evt'.reqId, body |-> "empty",
                    serviceName |-> NoName, apiKey |-> Null,
                    asker |-> handles[evt'.h].process, services |-> <<>>]
    ]_vars

\* a running parent sent a list with a null entry and got no reply
C21_NoReply ==
  /\ evt.op = "setChildServices" /\ evt.arg.isArray
  /\ \E i \in DOMAIN evt.arg.items : evt.arg.items[i] = NotAnObject
  /\ Len(evt.arg.items) <= heap[handles[evt.h].config].maxChilds
  /\ ~handles[evt.h].dead /\ handles[evt.h].process \in DOMAIN procs
  /\ sent = NoMsg

(* ------------------------- the exit command ------------------------------ *)
QuitMsgs == 2

InitQuit ==
  InitWith([loads |-> 0, msgs |-> QuitMsgs, probes |-> 0,
            exits |-> 0, sigs |-> 0], {"pqh"}, {{}})

\* the only messages are exit commands, so every suspended message handler
\* is one of an exit command
NextQuit ==
  \/ \E t \in tasks : LoadDone(t)
  \/ \E t \in tasks : \E s \in t.starts : ResolveDone(t, s)
  \/ \E pid \in DOMAIN procs : StoppedExit(pid)
  \/ \E h \in DOMAIN handles : KillTimeout(h)
  \/ \E h \in DOMAIN handles : StartHooksDone(h)
  \/ \E pid \in DOMAIN procs : Exit(pid)

SpecQuit == InitQuit /\ [][NextQuit]_vars

\* C22: the exit command of a child takes its service out of the services
\* map and stops its process (interrupt sent, stop awaited), and when the
\* stop has completed the child is sent the reply {} with the _reqId of the
\* command.
C22_ExitStopsAndReplies ==
  [][/\ (IsMessage /\ evt'.op = "exit-cmd" /\ ~handles[evt'.h].dead)
        => LET pid == handles[evt'.h].process IN
             /\ nameOf(Kernel, evt'.h) \notin DOMAIN services'
             /\ pid \in DOMAIN procs' /\ procs'[pid].lst = "stop"
             /\ procs'[pid].sig = 1
             /\ \E t \in tasks' : t.kind = "msg" /\ t.wait = {evt'.h}
     /\ \A t \in tasks :
          (t.kind = "msg" /\ \A u \in tasks' : u.id # t.id)
          => sent' = [pid |-> t.pid, hid |-> t.h, reqId |-> t.reqId,
                      body |-> "empty", serviceName |-> NoName,
                      apiKey |-> Null, asker |-> t.pid, services |-> <<>>]
    ]_vars

\* the process of a child that sent the exit command has exited, the stop
\* has completed, and no reply was sent
C22_NoReply ==
  /\ evt.op = "stopped" /\ sent = NoMsg
  /\ evt.serviceName \notin DOMAIN services
  /\ used.msgs >= 1 /\ Cardinality({t \in tasks : t.kind = "msg"}) < used.msgs

(* --------------- stop and start requests for one service ----------------- *)
OrderMsgs == 2

InitOrder ==
  InitWith([loads |-> 0, msgs |-> OrderMsgs, probes |-> 0,
            exits |-> 0, sigs |-> 0], {"pq"}, {{}})

\* p, which holds "nsrvm", asks to stop, start and restart q
NextOrder ==
  \/ \E t \in tasks : LoadDone(t)
  \/ \E t \in tasks : \E s \in t.starts : ResolveDone(t, s)
  \/ \E pid \in DOMAIN procs : StoppedExit(pid)
  \/ \E h \in DOMAIN handles : KillTimeout(h)
  \/ \E pid \in DOMAIN procs :
       \E m \in {"stopService", "startService", "restartService"} :
         procs[pid].name = "p" /\ Api(pid, m, "q")

SpecOrder == InitOrder /\ [][NextOrder]_vars

\* C23: a process for a service name is forked only when no process that was
\* forked for that name before is still running.
C23_StartAfterExit ==
  [][\A pid \in DOMAIN procs' \ DOMAIN procs :
       \A old \in DOMAIN procs : procs[old].name # procs'[pid].name]_vars

\* stopService is still waiting for the exit of the process it interrupted,
\* and a process forked by a later start request runs under the same name
C23_Overlap ==
  \E old, new \in DOMAIN procs :
    /\ old < new /\ procs[old].name = procs[new].name
    /\ procs[old].lst = "stop" /\ procs[new].lst = "normal"
    /\ procs[new].name \in DOMAIN services
    /\ services[procs[new].name] = procs[new].hid
    /\ \E t \in tasks : t.kind = "msg" /\ procs[old].hid \in t.wait

(* --------------------- loadConfig: files of every kind ------------------- *)
LoadLoads == 1

\* the file is unreadable, no JSON, null, {}, {services: null},
\* {services: {q: null}}, or a document with service configs (the config of
\* q in "q" has no maxChilds)
LoadDocs == {"bad", "nojson", "jsnull", "nosvc", "svcnull", "nullentry", "pq", "q"}
ValidDocs == {"pq", "q"}

InitLoad ==
  InitWith([loads |-> LoadLoads, msgs |-> 0, probes |-> 0,
            exits |-> 0, sigs |-> 0], LoadDocs, {{}})

NextLoad ==
  \/ \E d \in LoadDocs : ConfigChanged(d)
  \/ \E t \in tasks : LoadDone(t)
  \/ \E t \in tasks : \E s \in t.starts : ResolveDone(t, s)
  \/ \E pid \in DOMAIN procs : StoppedExit(pid)

SpecLoad == InitLoad /\ [][NextLoad]_vars

\* C24: when loadConfig returns in init() or in the watchFile callback, the
\* supervisor has not exited and its config is the empty snapshot if the file
\* is unreadable, no JSON or no object with a services object (or holds a
\* service config that is null), and otherwise the services of the file, each
\* config as in the file but with maxChilds 0 where the file has none.
C24_LoadConfigNeverFails ==
  [][\A t \in tasks :
       (t.phase = "load" /\ \A u \in tasks' : u.id = t.id => u.phase # "load")
       => /\ ~exited' /\ confOk'
          /\ IF t.doc \in ValidDocs
             THEN /\ DOMAIN conf' = DOMAIN Doc(t.doc)
                  /\ \A n \in DOMAIN conf' :
                       heap'[conf'[n]] =
                         [Doc(t.doc)[n] EXCEPT !.maxChilds = IF @ = NoMax THEN 0 ELSE @]
             ELSE conf' = EmptyMap
    ]_vars

\* a reload read {services: null} while services ran: the desired map is
\* empty and the pass is stopping them
C24_Witness ==
  /\ evt.op = "watch" /\ disk = "svcnull"
  /\ conf = EmptyMap /\ confOk /\ ~exited
  /\ \E pid \in DOMAIN procs : procs[pid].lst = "stop"
  /\ \E t \in tasks : t.kind = "watch" /\ t.phase = "stopping"

\* a reload read a document whose config of q has no maxChilds
C24_Patched ==
  /\ evt.op = "watch" /\ disk = "q"
  /\ "q" \in DOMAIN conf /\ heap[conf["q"]].maxChilds = 0

(* ------------------- a module that cannot be resolved -------------------- *)
RetryLoads == 1

\* the module of q does not resolve at first; the file is rewritten with the
\* same services
InitRetry ==
  InitWith([loads |-> RetryLoads, msgs |-> 0, probes |-> 0,
            exits |-> 0, sigs |-> 0], {"pq"}, {{"q"}})

NextRetry ==
  \/ ConfigChanged("pq")
  \/ \E t \in tasks : LoadDone(t)
  \/ \E t \in tasks : \E s \in t.starts : ResolveDone(t, s)
  \/ InstallModule("q")

SpecRetry == InitRetry /\ [][NextRetry]_vars

\* C25: a startService whose module path does not resolve creates no handle,
\* puts nothing into services, forks no process and leaves the desired map as
\* it is; and every pass that reaches its start phase while a desired service
\* has no module calls startService for it again.
C25_UnresolvedIsRetried ==
  [][/\ (evt'.op = "startService" /\ evt'.serviceName \in missing)
        => /\ UNCHANGED <<services, procs, conf>>
           /\ DOMAIN handles' \subseteq DOMAIN handles
           /\ evt'.serviceName \in DOMAIN conf'
           /\ evt'.serviceName \notin DOMAIN services'
     /\ \A t \in tasks :
          (/\ t.kind \in {"init", "watch"} /\ t.phase \in {"load", "stopping"}
           /\ \A u \in tasks' : u.id = t.id => u.phase = "waiting")
          => \A n \in missing \cap DOMAIN conf' :
               \E u \in tasks' :
                 /\ u.id = t.id
                 /\ \E s \in u.starts : heap'[s.config].name = n /\ s.st = "resolve"
    ]_vars

\* a start of q failed for want of its module, the module was installed, and
\* the start of a later pass has forked q
C25_Witness ==
  /\ used.loads >= 1 /\ missing = {}
  /\ evt.op = "startService" /\ evt.serviceName = "q"
  /\ "q" \in DOMAIN services /\ handles[services["q"]].process \in DOMAIN procs
  /\ \A t \in tasks : t.kind # "init"

\* a start of q has failed: q is desired and has no handle, and no operation
\* is in progress
C25_Pending ==
  /\ tasks = {} /\ "q" \in missing /\ "q" \in DOMAIN conf
  /\ "q" \notin DOMAIN services /\ evt.op = "startService" /\ evt.serviceName = "q"

(* ----------------- setPublicApi: the lists at the limits ----------------- *)
ApiMsgs == 2
ApiProbes == 1

InitApi ==
  InitWith([loads |-> 0, msgs |-> ApiMsgs, probes |-> ApiProbes,
            exits |-> 0, sigs |-> 0], {"pq"}, {{}})

\* a list of n equal descriptors
Repeat(m, n) == [i \in 1..n |-> m]

\* descriptors at and around the limits of validateAPI: no object; one and
\* three keys; name of length 0, 1, 32, 33 and no string; description of
\* length 0, 128, 129 and no string
ApiMethods ==
  { Method(FALSE, 0, -1, -1), Method(TRUE, 1, 1, -1), Method(TRUE, 3, 1, 0),
    Method(TRUE, 2, 0, 0), Method(TRUE, 2, 1, 0), Method(TRUE, 2, 32, 128),
    Method(TRUE, 2, 33, 0), Method(TRUE, 2, -1, 0), Method(TRUE, 2, 1, 129),
    Method(TRUE, 2, 1, -1) }

\* no array, the empty list, lists of one descriptor, a good descriptor
\* followed by a bad one, and lists of 16 and of 17 good descriptors
ApiLists ==
  { [isArray |-> FALSE, items |-> <<>>], [isArray |-> TRUE, items |-> <<>>] }
  \cup { [isArray |-> TRUE, items |-> << m >>] : m \in ApiMethods }
  \cup { [isArray |-> TRUE, items |-> << Method(TRUE, 2, 1, 0), Method(TRUE, 2, 33, 0) >>],
         [isArray |-> TRUE, items |-> Repeat(Method(TRUE, 2, 32, 128), 16)],
         [isArray |-> TRUE, items |-> Repeat(Method(TRUE, 2, 32, 128), 17)] }

NextApi ==
  \/ \E t \in tasks : LoadDone(t)
  \/ \E t \in tasks : \E s \in t.starts : ResolveDone(t, s)
  \/ \E pid \in CapsCallers : \E api \in ApiLists : SetPublicApi(pid, api)

SpecApi == InitApi /\ [][NextApi]_vars

\* the list is an array of at most 16 objects, each with exactly two fields,
\* a string name of length 1..32 and a string description of length 0..128
Accepted(api) ==
  /\ api.isArray /\ Len(api.items) <= 16
  /\ \A i \in 1..Len(api.items) :
       /\ api.items[i].isObject /\ api.items[i].keys = 2
       /\ api.items[i].name \in 1..32
       /\ api.items[i].description \in 0..128

\* C26: a setPublicApi message of a live child makes the received list the
\* api of its handle exactly if the list is accepted, leaves the api as it
\* was otherwise, changes nothing else, and is answered by the reply {} with
\* the _reqId of the message.
C26_ApiReplacedIffValid ==
  [][(IsMessage /\ evt'.op = "setPublicApi" /\ ~handles[evt'.h].dead)
     => /\ handles'[evt'.h] =
             [handles[evt'.h] EXCEPT
                !.api = IF Accepted(evt'.arg) THEN evt'.arg.items ELSE @]
        /\ \A h \in DOMAIN handles \ {evt'.h} : handles'[h] = handles[h]
        /\ UNCHANGED <<childs, conf, confOk, heap, services, procs, tasks, apiKeys>>
        /\ sent' = [pid |-> handles[evt'.h].process, hid |-> evt'.h,
                    reqId |-> evt'.reqId, body |-> "empty",
                    serviceName |-> NoName, apiKey |-> Null,
                    asker |-> handles[evt'.h].process, services |-> <<>>]
    ]_vars

\* a handle whose api is a list of 16 descriptors was sent a list of 17: it
\* keeps the 16 and the child has its reply
C26_Witness ==
  /\ evt.op = "setPublicApi" /\ evt.arg.isArray /\ Len(evt.arg.items) = 17
  /\ Len(handles[evt.h].api) = 16
  /\ sent.body = "empty" /\ sent.hid = evt.h

\* C27: no two running child processes have the same service name, and the
\* handle of every running child process is the one stored in services under
\* its name or is being stopped.
C27_OneProcessPerName ==
  /\ \A a, b \in DOMAIN procs : procs[a].name = procs[b].name => a = b
  /\ \A pid \in DOMAIN procs :
       \/ /\ procs[pid].name \in DOMAIN services
          /\ services[procs[pid].name] = procs[pid].hid
       \/ procs[pid].lst = "stop"

\* two passes called startService for the same name while neither had a
\* handle for it: both calls have forked, the handle of the first process is
\* not in services any more and is not being stopped, and no operation is
\* left in progress
C27_Twins ==
  /\ tasks = {}
  /\ \E a, b \in DOMAIN procs :
       /\ a # b /\ procs[a].name = procs[b].name
       /\ procs[a].lst = "normal" /\ procs[b].lst = "normal"
       /\ handles[procs[a].hid].process = a /\ handles[procs[b].hid].process = b
       /\ services[procs[a].name] = procs[b].hid
       /\ ~handles[procs[a].hid].stopCalled

(* ------------- a sub-service that is named after a capability ------------ *)
GrantMsgs == 2
GrantProbes == 1

InitGrant ==
  InitWith([loads |-> 0, msgs |-> GrantMsgs, probes |-> GrantProbes,
            exits |-> 0, sigs |-> 0], {"pq"}, {{}})

\* q, whose allowedAPI in the file is empty and whose maxChilds is 1
GrantCallers == {pid \in DOMAIN procs : procs[pid].name = "q"}

\* q registers one sub-service, named "nsrvm" or "c", and asks for
\* supervisor-wide operations
NextGrant ==
  \/ \E t \in tasks : LoadDone(t)
  \/ \E t \in tasks : \E s \in t.starts : ResolveDone(t, s)
  \/ \E pid \in DOMAIN procs : StoppedExit(pid)
  \/ \E pid \in GrantCallers : \E n \in {NSRVM, "c"} :
       SetChildServices(pid, [isArray |-> TRUE,
                              items |-> << SC(n, 1, <<>>, NoMax, FALSE, FALSE) >>])
  \/ \E pid \in GrantCallers : Api(pid, "stopService", "p")
  \/ \E pid \in GrantCallers : Api(pid, "getServicesList", NoName)

SpecGrant == InitGrant /\ [][NextGrant]_vars

\* C28: an api request with a supervisor-wide method whose caller is a service
\* of the config file without "nsrvm" in its allowedAPI there gets no reply
\* and changes nothing, whatever sub-services the caller has registered.
C28_NoEscalation ==
  [][(/\ IsMessage /\ evt'.op = "api" /\ evt'.method \in SupervisorMethods
      /\ ~handles[evt'.h].dead
      /\ CallerName \in DOMAIN Doc(disk)
      /\ ~includes(Doc(disk)[CallerName].allowedAPI, NSRVM))
     => /\ sent' = NoMsg
        /\ UNCHANGED <<services, childs, apiKeys, conf, confOk, heap, handles,
                       procs, tasks, exited>>
    ]_vars

\* q, which has no "nsrvm" in the file, registered a sub-service named
\* "nsrvm" and then had the service p stopped
C28_Escalated ==
  /\ evt.op = "api" /\ evt.method = "stopService" /\ evt.serviceName = "p"
  /\ nameOf(Kernel, evt.h) = "q"
  /\ ~includes(Doc(disk)["q"].allowedAPI, NSRVM)
  /\ includes(heap[handles[evt.h].config].allowedAPI, NSRVM)
  /\ "p" \notin DOMAIN services
  /\ \E pid \in DOMAIN procs : procs[pid].name = "p" /\ procs[pid].lst = "stop"

\* C29: a handle on which stop() has been called gets no new process and no
\* new restart timer.
C29_StoppedStaysStopped ==
  [][\A h \in DOMAIN handles \cap DOMAIN handles' :
       handles[h].stopCalled
       => /\ handles'[h].process \in {Null, handles[h].process}
          /\ handles'[h].restartTimeoutId => handles[h].restartTimeoutId
    ]_vars

\* stop() was called on a handle while its onExit was running the
\* runAfterExit hooks after a crash; the hooks are done and the handle, which
\* is not in services, has its restart timer armed
C29_TimerAfterStop ==
  \E h \in DOMAIN handles :
    /\ handles[h].stopCalled /\ handles[h].restartTimeoutId
    /\ h \notin Range(services)
    /\ evt.op = "afterExit" /\ evt.h = h

(* ---------------- the number of sub-services of a parent ----------------- *)
MaxMsgs == 2

InitMax ==
  InitWith([loads |-> 0, msgs |-> MaxMsgs, probes |-> 0,
            exits |-> 0, sigs |-> 0], {"pq"}, {{}})

\* p and q, which may have one child each, send lists of one config, named c
\* or d (no service is stopped by these)
MaxValues ==
  { [isArray |-> TRUE, items |-> << SC("c", 1, <<>>, NoMax, FALSE, FALSE) >>],
    [isArray |-> TRUE, items |-> << SC("d", 1, <<>>, NoMax, FALSE, FALSE) >>] }

NextMax ==
  \/ \E t \in tasks : LoadDone(t)
  \/ \E t \in tasks : \E s \in t.starts : ResolveDone(t, s)
  \/ \E pid \in CapsCallers : \E c \in MaxValues : SetChildServices(pid, c)

SpecMax == InitMax /\ [][NextMax]_vars

\* C30: for every parent with a handle in services, the configs in its childs
\* list and the desired services whose parent it is are at most as many as
\* the maxChilds of its config.
C30_ChildsWithinMax ==
  \A i \in DOMAIN childs :
    LET pn == childs[i].parent IN
      pn \in DOMAIN services =>
        LET mx == heap[handles[services[pn]].config].maxChilds IN
          /\ Len(childs[i].configs) <= mx
          /\ Cardinality({n \in DOMAIN conf : heap[conf[n]].parent = pn}) <= mx

\* p, whose maxChilds is 1, sent the list [c] and then the list [d]: both are
\* desired with parent p and both run, and no operation is in progress
C30_TooMany ==
  /\ tasks = {} /\ "p" \in DOMAIN services
  /\ heap[handles[services["p"]].config].maxChilds = 1
  /\ \A n \in {"c", "d"} :
       /\ n \in DOMAIN conf /\ heap[conf[n]].parent = "p"
       /\ n \in DOMAIN services /\ handles[services[n]].process \in DOMAIN procs

\* C31: every reply is written to the process whose request it answers.
C31_ReplyToAsker ==
  sent # NoMsg => sent.pid = sent.asker

\* a process sent a request and crashed while the supervisor was handling it;
\* the restart timer forked a new process on the handle, and the reply
\* {status: true} of the old request was written to the new process
C31_ReplyToSuccessor ==
  /\ sent.body = "status" /\ used.exits = 1 /\ used.msgs = 1
  /\ sent.asker # Null /\ sent.asker < sent.pid
  /\ sent.asker \notin DOMAIN procs
  /\ sent.pid \in DOMAIN procs /\ procs[sent.pid].lst = "normal"
  /\ procs[sent.pid].name = "p"

(* ------------- a reload that takes a parent out of the file -------------- *)
OrphanLoads == 1
OrphanMsgs == 1

InitOrphan ==
  InitWith([loads |-> OrphanLoads, msgs |-> OrphanMsgs, probes |-> 0,
            exits |-> 0, sigs |-> 0], {"pq"}, {{}})

\* p registers the sub-service c; the file is rewritten without p after
\* init() has returned
NextOrphan ==
  \/ (\A t \in tasks : t.kind # "init") /\ ConfigChanged("q")
  \/ \E t \in tasks : LoadDone(t)
  \/ \E t \in tasks : \E s \in t.starts : ResolveDone(t, s)
  \/ \E pid \in DOMAIN procs : StoppedExit(pid)
  \/ \E pid \in DOMAIN procs :
       /\ procs[pid].name = "p"
       /\ SetChildServices(pid, [isArray |-> TRUE,
                                 items |-> << SC("c", 1, <<>>, NoMax, FALSE, FALSE) >>])

SpecOrphan == InitOrphan /\ [][NextOrphan]_vars

\* C32: when no reconciliation is in progress, the parent of every desired
\* sub-service and of every running sub-service is in the desired map.
C32_ChildsGoWithParent ==
  tasks = {} =>
    /\ \A n \in DOMAIN conf :
         heap[conf[n]].parent # NoName => heap[conf[n]].parent \in DOMAIN conf
    /\ \A pid \in DOMAIN procs :
         cfgOf(Kernel, procs[pid].hid).parent # NoName
           => cfgOf(Kernel, procs[pid].hid).parent \in DOMAIN conf

\* the reload that took p out of the file has stopped p and has completed;
\* p's sub-service c is still desired and still runs
C32_Orphan ==
  /\ tasks = {} /\ disk = "q" /\ used.loads = 1
  /\ "p" \notin DOMAIN conf /\ "p" \notin DOMAIN services
  /\ \A pid \in DOMAIN procs : procs[pid].name # "p"
  /\ "c" \in DOMAIN conf /\ heap[conf["c"]].parent = "p"
  /\ "c" \in DOMAIN services /\ handles[services["c"]].process \in DOMAIN procs

(* ------- a reload that adds a top-level service named like a child ------- *)
ShadowLoads == 1
ShadowMsgs == 1

InitShadow ==
  InitWith([loads |-> ShadowLoads, msgs |-> ShadowMsgs, probes |-> 0,
            exits |-> 0, sigs |-> 0], {"pq"}, {{}})

\* p registers the sub-service c (apiPort 1); the file is rewritten with a
\* top-level service c (apiPort 2) after init() has returned
NextShadow ==
  \/ (\A t \in tasks : t.kind # "init") /\ ConfigChanged("pqc")
  \/ \E t \in tasks : LoadDone(t)
  \/ \E t \in tasks : \E s \in t.starts : ResolveDone(t, s)
  \/ \E pid \in DOMAIN procs :
       /\ procs[pid].name = "p"
       /\ SetChildServices(pid, [isArray |-> TRUE,
                                 items |-> << SC("c", 1, <<>>, NoMax, FALSE, FALSE) >>])

SpecShadow == InitShadow /\ [][NextShadow]_vars

\* the watch callback has read the file that defines c as top-level
Reloaded ==
  /\ disk = "pqc"
  /\ \A t \in tasks : t.phase # "load"

\* C33: once the file that defines c as a top-level service has been loaded,
\* the desired config of c is the config of the file: no parent, apiPort 2.
C33_TopLevelKept ==
  Reloaded /\ "c" \in DOMAIN conf
    => /\ heap[conf["c"]].parent = NoName
       /\ heap[conf["c"]].apiPort = Doc("pqc")["c"].apiPort

\* the reload has completed; the desired config of c is the one p registered
C33_Shadowed ==
  /\ Reloaded /\ tasks = {} /\ used.msgs = 1
  /\ "c" \in DOMAIN conf
  /\ heap[conf["c"]].parent = "p" /\ heap[conf["c"]].apiPort = 1
  /\ "c" \in DOMAIN services /\ cfgOf(Kernel, services["c"]).parent = "p"

(* ------------------- stop() under timers that fire ---------------------- *)
\* the kill timer set by stop() fires after STOP_TIMEOUT
KillTimerFires == \E h \in DOMAIN handles : KillTimeout(h)

\* a process that has received SIGKILL exits
KilledExits == \E pid \in DOMAIN procs : procs[pid].sig = 2 /\ StoppedExit(pid)

\* the runs of SpecLife in which timers fire and killed processes exit; a
\* process that has only been interrupted may run for ever
SpecHalt ==
  InitLife /\ [][NextLife]_vars /\ WF_vars(KillTimerFires) /\ WF_vars(KilledExits)

\* the stop promise of process pid is pending
Stopping(pid) == pid \in DOMAIN procs /\ procs[pid].lst = "stop"

\* C34: unless the supervisor exits first, every pending stop() resolves:
\* an operation awaits a stop promise only while the process of the handle is
\* being stopped, a stop() on a handle that is dead or has no process leaves
\* nothing pending, and every process being stopped eventually exits, which
\* resolves the promise (again and again no process is being stopped).
C34_StopResolves ==
  /\ [](\A t \in tasks : \A h \in t.wait :
          h \in DOMAIN handles /\ Stopping(handles[h].process))
  /\ [](\A pid \in DOMAIN procs :
          Stopping(pid) => procs[pid].sig = 2 \/ handles[procs[pid].hid].killTimeoutId)
  /\ []<>(exited \/ \A pid \in DOMAIN procs : ~Stopping(pid))

\* an operation awaits the stop promise of a process that ignored the
\* interrupt; the kill timer has fired and the process has been sent SIGKILL
C34_KilledWhileAwaited ==
  \E pid \in DOMAIN procs :
    /\ Stopping(pid) /\ procs[pid].sig = 2 /\ ~exited
    /\ ~handles[procs[pid].hid].killTimeoutId
    /\ \E t \in tasks : procs[pid].hid \in t.wait

(* ------------------- the config-refresh phase of a pass ------------------ *)
\* the step carries a reconciliation pass through its config-refresh phase:
\* the pass was reading the file or awaiting its stops and is now past both
Refreshed ==
  /\ confOk'
  /\ \E t \in tasks :
       /\ t.phase \in {"load", "stopping"}
       /\ \A u \in tasks' : u.id = t.id => u.phase \notin {"load", "stopping"}

\* C35: after the config-refresh phase of a pass every handle in services
\* holds the desired config of its name, and every desired name has an api key.
C35_RefreshedHandlesAreCurrent ==
  [][Refreshed =>
       /\ \A n \in DOMAIN services' :
            n \in DOMAIN conf' /\ handles'[services'[n]].config = conf'[n]
       /\ \A n \in DOMAIN conf' : n \in DOMAIN apiKeys']_vars

\* the pass of the reload that emptied the desired map has waited for the exit
\* of p and has completed; q, started meanwhile by init(), is in services with
\* the config of the first load, which is not desired
C35_StaleHandle ==
  /\ evt.op = "stopped" /\ evt.serviceName = "p" /\ tasks = {} /\ confOk
  /\ disk = "bad" /\ used.loads = 1 /\ conf = EmptyMap
  /\ "q" \in DOMAIN services
  /\ handles[services["q"]].process \in DOMAIN procs
  /\ cfgOf(Kernel, services["q"]).name = "q"

(* -------------- the start of a sub-service and its registration ---------- *)
DeferMsgs == 1
DeferLoads == 1

\* the module of q is not installed: every pass calls startService for q
InitDefer ==
  InitWith([loads |-> DeferLoads, msgs |-> DeferMsgs, probes |-> 0,
            exits |-> 0, sigs |-> 0], {"pq"}, {{"q"}})

\* p registers the sub-service c, once; the file is rewritten with the same
\* contents after init() has returned
NextDefer ==
  \/ (\A t \in tasks : t.kind # "init") /\ ConfigChanged("pq")
  \/ \E t \in tasks : LoadDone(t)
  \/ \E t \in tasks : \E s \in t.starts : ResolveDone(t, s)
  \/ \E pid \in DOMAIN procs :
       /\ procs[pid].name = "p"
       /\ SetChildServices(pid, [isArray |-> TRUE,
                                 items |-> << SC("c", 1, <<>>, NoMax, FALSE, FALSE) >>])

SpecDefer == InitDefer /\ [][NextDefer]_vars

\* the setChildServices handler of p has not returned yet
HandlerRunning ==
  \E t \in tasks : t.kind = "msg" /\ nameOf(Kernel, t.h) = "p"

\* C36: no process of a sub-service of p exists while the setChildServices
\* handler of p that registered it is still running.
C36_ChildAfterHandler ==
  HandlerRunning =>
    \A pid \in DOMAIN procs : cfgOf(Kernel, procs[pid].hid).parent # "p"

\* the process of c has been forked; the handler of p that registered c still
\* awaits the startService of q and has not replied
C36_ChildDuringHandler ==
  /\ HandlerRunning /\ used.msgs = 1 /\ sent = NoMsg
  /\ "c" \in DOMAIN services
  /\ handles[services["c"]].process \in DOMAIN procs
  /\ cfgOf(Kernel, services["c"]).parent = "p"
  /\ \E t \in tasks : t.kind = "msg" /\ \E s \in t.starts : heap[s.config].name = "q"

(* ------------------- hooks and pauses of start and exit ------------------ *)
HookExits == 2

\* p has both hook lists, q has none; both have waitBeforeStart and
\* waitAfterExit greater than 0
InitHook ==
  InitWith([loads |-> 0, msgs |-> 0, probes |-> 0,
            exits |-> HookExits, sigs |-> 0], {"pqw"}, {{}})

NextHook ==
  \/ \E t \in tasks : LoadDone(t)
  \/ \E t \in tasks : \E s \in t.starts : ResolveDone(t, s)
  \/ \E pid \in DOMAIN procs : \E code \in {0, 1} : ChildExit(pid, code)
  \/ \E h \in DOMAIN handles : RestartTimeout(h)
  \/ \E h \in DOMAIN handles : StartHooksDone(h)
  \/ \E h \in DOMAIN handles : StartPauseDone(h)
  \/ \E h \in DOMAIN handles : ExitHooksDone(h)
  \/ \E h \in DOMAIN handles : ExitPauseDone(h)

SpecHook == InitHook /\ [][NextHook]_vars

\* C37: a process is forked for a config with runBeforeStart hooks only by
\* the step that ends the suspension of start(); with waitBeforeStart > 0 the
\* fork is the step that ends the pause, and with waitAfterExit > 0 the
\* restart timer is set by the step that ends the pause of onExit, whether or
\* not the config has a hook list.
C37_WaitsApply ==
  [][\A h \in DOMAIN handles' :
       /\ (Forks(h) /\ cfgOf(Kernel, h)'.runBeforeStart)
            => h \in DOMAIN handles /\ (handles[h].starting \/ handles[h].startPause)
       /\ (Forks(h) /\ cfgOf(Kernel, h)'.waitBeforeStart > 0)
            => h \in DOMAIN handles /\ handles[h].startPause
       /\ (/\ handles'[h].restartTimeoutId
           /\ h \in DOMAIN handles => ~handles[h].restartTimeoutId
           /\ cfgOf(Kernel, h)'.waitAfterExit > 0)
            => h \in DOMAIN handles /\ handles[h].exitPause >= 0
    ]_vars

\* q, which has waitBeforeStart > 0 and no hook list, runs although no
\* process has exited and no start of q has ever been suspended or paused
C37_ForkedWithoutPause ==
  /\ used.exits = 0 /\ "q" \in DOMAIN services
  /\ handles[services["q"]].process \in DOMAIN procs
  /\ cfgOf(Kernel, services["q"]).waitBeforeStart > 0
  /\ ~cfgOf(Kernel, services["q"]).runBeforeStart
  /\ evt.op = "startService" /\ evt.serviceName = "q"

(* ------------------------- run(): one hook command ----------------------- *)
\* the delay of the kill timer of run()
HookKillDelay == 10000

\* no instant: a timer that is not armed, a promise that is not resolved
Never == -1

\* the runTimeout of a hook, in milliseconds (0: none given)
RunTimeouts == {0, 5000, 10000, 20000}

\* the instants, in milliseconds, at which the model looks at a hook
Instants == {2000, 5000, 8000, 10000, 15000, 20000, 25000}

\* a hook before run() is called; throws: spawn() throws
NewHook(waitForClose, runTimeout, throws) ==
  [pc |-> "idle", waitForClose |-> waitForClose, runTimeout |-> runTimeout,
   throws |-> throws, now |-> 0, startedAt |-> Never, timer |-> Never,
   child |-> "none", resolvedAt |-> Never]

\* resolve() of the promise of run()
resolveRun(h) == IF h.resolvedAt = Never THEN [h EXCEPT !.resolvedAt = h.now] ELSE h

\* run(app, args, waitForClose, runTimeout): the executor of the promise
run(h) ==
  LET h0 == [h EXCEPT !.pc = "called", !.startedAt = h.now] IN
  IF h.throws THEN resolveRun(h0)
  ELSE LET h1 == [h0 EXCEPT !.child = "running",
                            !.timer = IF h.runTimeout # 0
                                      THEN h.now + HookKillDelay ELSE Never]
       IN IF ~h.waitForClose THEN resolveRun(h1) ELSE h1

\* the kill timer of run() fires: child.kill(), resolve()
onKillTimer(h) ==
  resolveRun([h EXCEPT !.now = h.timer, !.timer = Never, !.child = "killed"])

\* the 'close' and the 'error' listener of run()
onClose(h) == resolveRun([h EXCEPT !.timer = Never, !.child = "closed"])
onError(h) == resolveRun([h EXCEPT !.timer = Never, !.child = "failed"])

HookStep(h) == hook' = h /\ UNCHANGED <<kernel, client, lookup>>

Run == hook.pc = "idle" /\ HookStep(run(hook))
KillTimer == hook.timer # Never /\ HookStep(onKillTimer(hook))
Close == hook.child \in {"running", "killed"} /\ HookStep(onClose(hook))
Error == hook.child = "running" /\ HookStep(onError(hook))
\* time passes; a timer that is armed fires on time
Advance(t) ==
  /\ t > hook.now /\ (hook.timer # Never => t < hook.timer)
  /\ hook.child \notin {"closed", "failed"}
  /\ HookStep([hook EXCEPT !.now = t])

InitRun ==
  /\ InitKernel([loads |-> 0, msgs |-> 0, probes |-> 0, exits |-> 0, sigs |-> 0],
                {"pq"}, {{}})
  /\ lookup = Never
  /\ hook \in {NewHook(w, r, th) : w \in BOOLEAN, r \in RunTimeouts, th \in BOOLEAN}

NextRun ==
  \/ Run
  \/ KillTimer
  \/ Close
  \/ Error
  \/ \E t \in Instants : Advance(t)

SpecRun == InitRun /\ [][NextRun]_vars

\* C38: a kill timer is armed exactly for a hook with a runTimeout and is due
\* runTimeout after the call; a hook is not running any more once its
\* runTimeout has elapsed, and is not killed before; a killed hook has
\* completed its step.
C38_KillAfterRunTimeout ==
  hook.pc = "called" =>
    /\ hook.timer # Never => hook.timer = hook.startedAt + hook.runTimeout
    /\ (hook.runTimeout # 0 /\ hook.now > hook.startedAt + hook.runTimeout)
         => hook.child # "running"
    /\ hook.child = "killed"
         => /\ hook.runTimeout # 0
            /\ hook.now >= hook.startedAt + hook.runTimeout
            /\ hook.resolvedAt # Never

\* a hook with runTimeout 5000 is awaited and still runs 8000 ms after the
\* call; its kill timer is armed for 10000 ms after the call
C38_RunsPastTimeout ==
  /\ hook.pc = "called" /\ hook.waitForClose /\ hook.runTimeout = 5000
  /\ hook.child = "running" /\ hook.resolvedAt = Never
  /\ hook.now = hook.startedAt + 8000
  /\ hook.timer = hook.startedAt + HookKillDelay

(* --------------------------- resolveModulePath --------------------------- *)
\* what stat() finds at a path: nothing (it throws), a regular file, a
\* directory, or something else (a socket, a FIFO, a device)
Kinds == {"none", "file", "dir", "other"}

\* the entries of the services directory that the probe looks at, for one
\* name: <name>, <name>/index.mjs, <name>/index.js, <name>.mjs, <name>.js
Dirs ==
  {d \in [base : Kinds, indexMjs : Kinds, indexJs : Kinds, mjs : Kinds, js : Kinds] :
     d.base # "dir" => d.indexMjs = "none" /\ d.indexJs = "none"}

\* the modulePath of a config: absent, empty, or a name
Absent == "(undefined)"
ModulePaths == {Absent, "", "lib"}

\* path.resolve(rootDir, servicesDir, name) + suffix; NoPath is ''
Path(name, suffix) == <<name, suffix>>
NoPath == <<>>

\* serviceConfig.modulePath || serviceConfig.name
moduleName(c) == IF c.modulePath \in {Absent, ""} THEN c.name ELSE c.modulePath

\* return stat.isFile() ? modulePath : ''
fileOrNothing(kind, p) == IF kind = "file" THEN p ELSE NoPath

resolveModulePath(c, d) ==
  LET name == moduleName(c) IN
  IF d.base # "none"
  THEN IF d.base = "dir"
       THEN IF d.indexMjs # "none"
            THEN fileOrNothing(d.indexMjs, Path(name, "/index.mjs"))
            ELSE IF d.indexJs # "none"
                 THEN fileOrNothing(d.indexJs, Path(name, "/index.js"))
                 ELSE NoPath
       ELSE Path(name, "")
  ELSE IF d.mjs # "none"
       THEN fileOrNothing(d.mjs, Path(name, ".mjs"))
       ELSE IF d.js # "none"
            THEN fileOrNothing(d.js, Path(name, ".js"))
            ELSE NoPath

InitLookup ==
  /\ InitKernel([loads |-> 0, msgs |-> 0, probes |-> 0, exits |-> 0, sigs |-> 0],
                {"pq"}, {{}})
  /\ hook = Null
  /\ lookup \in {[pc |-> "idle", config |-> [name |-> "q", modulePath |-> m],
                  dir |-> d, result |-> NoPath] : m \in ModulePaths, d \in Dirs}

Resolve ==
  /\ lookup.pc = "idle"
  /\ lookup' = [lookup EXCEPT !.pc = "done",
                              !.result = resolveModulePath(lookup.config, lookup.dir)]
  /\ UNCHANGED <<kernel, client, hook>>

NextLookup == Resolve

SpecLookup == InitLookup /\ [][NextLookup]_vars

\* the first match of the ordered probe
FirstMatch(name, d) ==
  IF d.base = "dir"
  THEN IF d.indexMjs = "file" THEN Path(name, "/index.mjs")
       ELSE IF d.indexJs = "file" THEN Path(name, "/index.js")
       ELSE NoPath
  ELSE IF d.base = "file" THEN Path(name, "")
  ELSE IF d.mjs = "file" THEN Path(name, ".mjs")
  ELSE IF d.js = "file" THEN Path(name, ".js")
  ELSE NoPath

\* C39: for every state of the services directory the result of
\* resolveModulePath is the first match of the ordered probe, with the name
\* taken from modulePath or else from the service name.
C39_FirstMatchWins ==
  lookup.pc = "done" =>
    lookup.result =
      FirstMatch(IF lookup.config.modulePath \in {Absent, ""}
                 THEN lookup.config.name ELSE lookup.config.modulePath, lookup.dir)

\* <name> is a directory in which index.mjs is a directory and index.js is a
\* file: the result is empty
C39_IndexJsNotProbed ==
  /\ lookup.pc = "done" /\ lookup.result = NoPath
  /\ lookup.dir.base = "dir" /\ lookup.dir.indexMjs = "dir"
  /\ lookup.dir.indexJs = "file"

(* --------------------------- getServicesList ----------------------------- *)
ListMsgs == 1
ListProbes == 1
ListExits == 1

InitList ==
  InitWith([loads |-> 0, msgs |-> ListMsgs, probes |-> ListProbes,
            exits |-> ListExits, sigs |-> 0], {"pq"}, {{}})

\* q advertises a public API of one method; a child exits with code 0 or 1
\* and is restarted after a crash; p, which holds "nsrvm", asks for the list
\* or stops q
NextList ==
  \/ \E t \in tasks : LoadDone(t)
  \/ \E t \in tasks : \E s \in t.starts : ResolveDone(t, s)
  \/ \E pid \in DOMAIN procs : \E code \in {0, 1} : ChildExit(pid, code)
  \/ \E pid \in DOMAIN procs : StoppedExit(pid)
  \/ \E h \in DOMAIN handles : RestartTimeout(h)
  \/ \E pid \in DOMAIN procs :
       /\ procs[pid].name = "q"
       /\ SetPublicApi(pid, [isArray |-> TRUE, items |-> << Method(TRUE, 2, 3, 10) >>])
  \/ \E pid \in DOMAIN procs :
       procs[pid].name = "p" /\ Api(pid, "getServicesList", NoName)
  \/ \E pid \in DOMAIN procs :
       procs[pid].name = "p" /\ Api(pid, "stopService", "q")

SpecList == InitList /\ [][NextList]_vars

\* C40: the list of an answer to getServicesList has exactly one entry for
\* every name of the desired map; the status of an entry tells whether
\* services holds a handle for the name, dead or not, and its api is the
\* public API of that handle, or empty when there is none.
C40_ListMirrorsServices ==
  sent.body = "list" =>
    LET l == sent.services IN
    /\ Len(l) = Cardinality(DOMAIN conf)
    /\ \A n \in DOMAIN conf : \E i \in DOMAIN l : l[i].serviceName = n
    /\ \A i \in DOMAIN l :
         /\ l[i].serviceName \in DOMAIN conf
         /\ l[i].status = (l[i].serviceName \in DOMAIN services)
         /\ l[i].api = IF l[i].serviceName \in DOMAIN services
                       THEN handles[services[l[i].serviceName]].api ELSE <<>>

\* p has been sent a list in which q, whose process has exited and whose
\* handle is dead, has status true and the API it advertised
C40_DeadListedAsUp ==
  /\ sent.body = "list" /\ Len(sent.services) = 2
  /\ "q" \in DOMAIN services /\ handles[services["q"]].dead
  /\ handles[services["q"]].process = Null
  /\ \E i \in DOMAIN sent.services :
       /\ sent.services[i].serviceName = "q" /\ sent.services[i].status
       /\ sent.services[i].api # <<>>

====
